---- MODULE Spec2Model ----
(***************************************************************************)
(* Planning Center synchronisation core.                                   *)
(*                                                                         *)
(*   Spec        one run of DataSyncService.run_sync for one pending job   *)
(*               (services/data_sync_service.py), with the job row, the    *)
(*               tenant row and the destination schema it writes.          *)
(*   SpecRefresh the refresh endpoint (api/data.py) creating jobs for one  *)
(*               tenant while background runs finish them.                 *)
(*   SpecGet     the retry loop of PCOClient.get (etl/pco_client.py).      *)
(*                                                                         *)
(* The ORM session is modelled by what Session.commit() does: a commit     *)
(* that succeeds writes the attributes assigned since the last commit or   *)
(* rollback to the committed row; a commit that raises persists nothing    *)
(* and rolls the session back, so the assignments made before it are not   *)
(* written by a later commit.  job / tenant are the Python objects as the  *)
(* orchestrator last assigned them, dbJob / dbTenant the committed rows a  *)
(* poller reads.                                                           *)
(***************************************************************************)
EXTENDS Integers, Sequences, FiniteSets, TLC

VARIABLES
    \* ---- one run of run_sync
    pc,             \* position of the run inside run_sync
    job,            \* the DataRefreshJob object handed to run_sync
    dbJob,          \* the committed data_refresh_jobs row
    tenant,         \* the Tenant object of the session
    dbTenant,       \* the committed tenants row
    dirty,          \* attributes assigned in the session and not yet committed
    now,            \* datetime.now(): a logical clock
    client,         \* self.client is set
    idx,            \* loop index over DASHBOARD_ENDPOINTS / self.dataframes
    total_records,  \* local total_records of run_sync
    dataframes,     \* self.dataframes: table name -> accumulated table
    schemaExists,   \* the tenant's destination schema exists
    dest,           \* destination tables of the tenant's schema
    raised,         \* str(e) of the exception that escaped a stage, or Null
    raisedIn,       \* the stage it escaped from
    log,            \* the fetches and destination statements issued so far
    prevSync,       \* tenants.last_data_refresh when the run started
    \* ---- the refresh endpoint
    jobs,           \* committed status of every job row of the tenant
    reqs,           \* position of every refresh request
    \* ---- PCOClient.get
    gpc,            \* position inside get
    retry_count,    \* local retry_count
    attempts,       \* outcomes of the session.get calls made so far
    sleeps,         \* durations passed to time.sleep so far
    result,         \* what get returned or raised
    \* ---- PCOClient.get_all_pages
    upstream,       \* the responses get gives to the successive page requests
    ppc,            \* position inside get_all_pages
    page_num,       \* local page_num: requests made so far
    offset,         \* local offset
    fetched,        \* local all_data of get_all_pages
    per_page,       \* the page size the caller asks for
    calls,          \* the requests made and the delays slept, in order
    fetch_out,      \* what _fetch_endpoint left: its table and return value
    \* ---- process_jsonapi_response and parse_event_time_ids
    api_response,   \* the JSON:API response handed to the flattener
    fpc,            \* position: the response is flattened, its ids are parsed
    processed_data, \* what process_jsonapi_response returned
    parsed_ids,     \* parse_event_time_ids of every _ids value of every row
    \* ---- _explode_checkins
    ids_column,     \* df[event_time_ids_col]: one value per check-in row
    xpc,            \* position inside _explode_checkins
    df_exploded,    \* the exploded table: source row and link id of each row
    \* ---- the merges of _enrich_event_times and _enrich_checkins
    join,           \* which merge, and the two tables it is given
    jpc,            \* position: the merge has run or not
    enriched,       \* the fact table after the merge, or that it raised
    \* ---- generate_dtype_mapping
    column,         \* name, native dtype and sampled values of one column
    dpc,            \* position: the mapping has been generated or not
    dtype_mapping,  \* the SQL type generate_dtype_mapping gave the column
    \* ---- convert_timestamps_to_timezone
    ts_column,      \* one column of the table: its dtype and its values
    tpc,            \* position: how many times the function was applied
    converted       \* the column after each application

runVars == <<pc, job, dbJob, tenant, dbTenant, dirty, now, client, idx,
             total_records, dataframes, schemaExists, dest, raised, raisedIn,
             log, prevSync>>
refVars == <<jobs, reqs>>
getVars == <<gpc, retry_count, attempts, sleeps, result>>
pageVars == <<upstream, ppc, page_num, offset, fetched, per_page, calls,
             fetch_out>>
flatVars == <<api_response, fpc, processed_data, parsed_ids>>
explodeVars == <<ids_column, xpc, df_exploded>>
joinVars == <<join, jpc, enriched>>
dtypeVars == <<column, dpc, dtype_mapping>>
tzVars == <<ts_column, tpc, converted>>
stepVars == <<explodeVars, joinVars, dtypeVars, tzVars>>
fnVars == <<pageVars, flatVars, stepVars>>
vars == <<runVars, refVars, getVars, fnVars>>

(***************************************************************************)
(* Bounds of the model.                                                    *)
(***************************************************************************)
MaxPages == 2       \* pages one resource is given upstream
MaxLinks == 2       \* linked event-time ids one check-in row carries
MaxRequests == 3    \* refresh requests of one tenant

Null == "NULL"      \* None in a text column
NoValue == -1       \* None in an integer or datetime column

(***************************************************************************)
(* DataRefreshJob (models/refresh_job.py).                                 *)
(***************************************************************************)
NewJob ==
    [status |-> "pending", started_at |-> NoValue, completed_at |-> NoValue,
     total_endpoints |-> NoValue, completed_endpoints |-> 0,
     current_endpoint |-> Null, records_fetched |-> 0, error_message |-> Null]

mark_started(j, t) ==
    [j EXCEPT !.status = "running", !.started_at = t]

\* mark_completed leaving the count of the job as it was
mark_completed_without_count(j, t, records) ==
    [j EXCEPT !.status = "completed", !.completed_at = t]

mark_completed(j, t, records) ==
    [j EXCEPT !.status = "completed", !.completed_at = t,
              !.records_fetched = records]

\* mark_failed forgetting to set the status
mark_failed_keeps_status(j, t, msg) ==
    [j EXCEPT !.completed_at = t, !.error_message = msg]

\* mark_failed storing a fixed text instead of the exception's
mark_failed_generic(j, t, msg) ==
    [j EXCEPT !.status = "failed", !.completed_at = t,
              !.error_message = "Sync failed"]

mark_failed(j, t, msg) ==
    [j EXCEPT !.status = "failed", !.completed_at = t, !.error_message = msg]

\* update_progress storing the endpoints still to do
update_progress_remaining(j, endpoint, completed) ==
    [j EXCEPT !.current_endpoint = endpoint,
              !.completed_endpoints = 3 - completed]

update_progress(j, endpoint, completed) ==
    [j EXCEPT !.current_endpoint = endpoint, !.completed_endpoints = completed]

(***************************************************************************)
(* DataSyncService.DASHBOARD_ENDPOINTS, in dictionary order.               *)
(***************************************************************************)
DASHBOARD_ENDPOINTS ==
    << [name |-> "people", endpoint |-> "/people/v2/people",
        table_name |-> "PC_PEOPLE"],
       [name |-> "check_ins", endpoint |-> "/check-ins/v2/check_ins",
        table_name |-> "PC_CHECKINS"],
       [name |-> "events", endpoint |-> "/check-ins/v2/events",
        table_name |-> "PC_EVENTS"],
       [name |-> "event_times", endpoint |-> "/check-ins/v2/event_times",
        table_name |-> "PC_EVENT_TIMES"] >>

Tables == {DASHBOARD_ENDPOINTS[i].table_name : i \in DOMAIN DASHBOARD_ENDPOINTS}

Endpoint(i) == DASHBOARD_ENDPOINTS[i + 1]    \* the i-th item, i counted from 0

(***************************************************************************)
(* Session.commit() as run_sync uses it.                                   *)
(***************************************************************************)
Committed(row, obj, d) ==
    [f \in DOMAIN row |-> IF f \in d THEN obj[f] ELSE row[f]]

\* a failed commit that left the assignments pending
RolledBackNothing(d) == d

RolledBack(d) == {}

CommitError == "OperationalError"

Commit(ok, j, t, d) ==
    IF ok
    THEN /\ dbJob' = Committed(dbJob, j, d)
         /\ dbTenant' = Committed(dbTenant, t, d)
         /\ dirty' = {}
    ELSE /\ UNCHANGED <<dbJob, dbTenant>>
         /\ dirty' = RolledBack(d)

Raise(e, stage) ==
    /\ pc' = "except"
    /\ raised' = e
    /\ raisedIn' = stage

NoRaise == UNCHANGED <<raised, raisedIn>>

Logged(op, arg) == Append(log, [op |-> op, arg |-> arg])

(***************************************************************************)
(* Accumulated tables (self.dataframes).  A table is its number of rows    *)
(* and its column names.  Every table has its primary-key column and the   *)
(* attribute columns the enrichment reads; the relationship columns        *)
(* (KeyCols) are there only when the upstream items carry the              *)
(* relationship.                                                           *)
(***************************************************************************)
AbsentDF == [present |-> FALSE, rows |-> 0, cols |-> {}]

BaseCols(t) ==
    CASE t = "PC_PEOPLE" -> {"people_id", "gender", "birthdate"}
      [] t = "PC_CHECKINS" -> {"kind"}
      [] t = "PC_EVENTS" -> {"event_id", "name", "frequency"}
      [] t = "PC_EVENT_TIMES" -> {"event_time_id", "starts_at"}

KeyCols(t) ==
    CASE t = "PC_PEOPLE" -> {}
      [] t = "PC_CHECKINS" -> {"event_times_ids", "person_id"}
      [] t = "PC_EVENTS" -> {}
      [] t = "PC_EVENT_TIMES" -> {"event_id"}

RECURSIVE FirstMatch(_, _)
FirstMatch(cands, cols) ==
    IF cands = <<>> THEN Null
    ELSE IF Head(cands) \in cols THEN Head(cands)
    ELSE FirstMatch(Tail(cands), cols)

(***************************************************************************)
(* _fetch_endpoint: the page loop over the pages upstream serves.  A page  *)
(* is an error (client.get raised after its retries), or a response that   *)
(* flattens to `rows` rows (0: no data items, or flattening raised; a      *)
(* page with data is taken to carry one item) and has a links.next or not. *)
(***************************************************************************)
Page == [kind : {"ok", "error"}, rows : {0, 1}, next : BOOLEAN]
PageSeqs == UNION {[1..n -> Page] : n \in 1..MaxPages}

RECURSIVE FetchLoop(_, _, _)
FetchLoop(pages, k, all_data) ==
    IF k > Len(pages) THEN [ok |-> TRUE, rows |-> all_data]
    ELSE IF pages[k].kind = "error" THEN [ok |-> FALSE, rows |-> all_data]
    ELSE IF pages[k].rows = 0 THEN [ok |-> TRUE, rows |-> all_data]
    ELSE IF ~pages[k].next THEN [ok |-> TRUE, rows |-> all_data + pages[k].rows]
    ELSE FetchLoop(pages, k + 1, all_data + pages[k].rows)

\* what _fetch_endpoint returns
FetchReturn(pages) ==
    LET r == FetchLoop(pages, 1, 0)
    IN IF r.ok /\ r.rows > 0 THEN r.rows ELSE 0

\* the rows process_jsonapi_response gave over the pages of the loop, those
\* of a fetch that ended in the except clause included
FetchFlattened(pages) == FetchLoop(pages, 1, 0).rows

\* self.dataframes[table_name] after _fetch_endpoint
FetchTable(pages, t, keys, old) ==
    IF FetchReturn(pages) > 0
    THEN [present |-> TRUE, rows |-> FetchReturn(pages),
          cols |-> BaseCols(t) \cup keys]
    ELSE old

(***************************************************************************)
(* run_sync, stage by stage.  Every stage either goes on to the next one   *)
(* or raises into the except clause of run_sync (pc = "except").           *)
(***************************************************************************)
UnexpectedError == "MemoryError"   \* str(e) of an exception pandas raises

\* lines 116-119: mark_started, total_endpoints, commit
MarkStarted ==
    /\ pc = "mark_started"
    /\ \E ok \in BOOLEAN :
         LET j == [mark_started(job, now)
                     EXCEPT !.total_endpoints = Len(DASHBOARD_ENDPOINTS)]
         IN /\ job' = j
            /\ Commit(ok, j, tenant,
                      dirty \cup {"status", "started_at", "total_endpoints"})
            /\ IF ok THEN pc' = "init_client" /\ NoRaise
                     ELSE Raise(CommitError, "mark_started")
    /\ now' = now + 1
    /\ log' = Logged("stage", "mark_started")
    /\ UNCHANGED <<tenant, client, idx, total_records, dataframes,
                   schemaExists, dest, prevSync, refVars, fnVars, getVars>>

\* lines 121-122 and _init_client
InitClient ==
    /\ pc = "init_client"
    /\ log' = Logged("stage", "init_client")
    /\ \/ /\ ~tenant.has_credentials
          /\ Raise("PCO credentials not configured", "init_client")
          /\ UNCHANGED client
       \/ /\ tenant.has_credentials
          /\ \E decrypted \in BOOLEAN :
               IF decrypted
               THEN client' = TRUE /\ pc' = "test_connection" /\ NoRaise
               ELSE UNCHANGED client /\ Raise("InvalidToken", "init_client")
    /\ UNCHANGED <<job, dbJob, tenant, dbTenant, dirty, now, idx,
                   total_records, dataframes, schemaExists, dest, prevSync,
                   refVars, fnVars, getVars>>

\* what client.get can raise once its retries are used up (str(e))
GetErrors == {"ConnectionError", "HTTPError"}

\* PCOClient.test_connection: (True, None) or (False, str(e))
TestConnectionResults ==
    {[success |-> TRUE, error |-> Null]}
        \cup {[success |-> FALSE, error |-> e] : e \in GetErrors}

\* run_sync ignoring the result of test_connection
ConnectionFailedIgnored(r) == FALSE

ConnectionFailed(r) == ~r.success

\* lines 124-127
TestConnection ==
    /\ pc = "test_connection"
    /\ \E r \in TestConnectionResults :
         /\ log' = Logged("test_connection", r.error)
         /\ IF ConnectionFailed(r)
            THEN Raise("PCO connection failed: " \o r.error, "test_connection")
                 /\ UNCHANGED idx
            ELSE pc' = "progress" /\ idx' = 0 /\ NoRaise
    /\ UNCHANGED <<job, dbJob, tenant, dbTenant, dirty, now, client,
                   total_records, dataframes, schemaExists, dest, prevSync,
                   refVars, fnVars, getVars>>

\* lines 131-133: update_progress(config['endpoint'], i), commit
UpdateProgress ==
    /\ pc = "progress"
    /\ \E ok \in BOOLEAN :
         LET j == update_progress(job, Endpoint(idx).endpoint, idx)
         IN /\ job' = j
            /\ Commit(ok, j, tenant,
                      dirty \cup {"current_endpoint", "completed_endpoints"})
            /\ IF ok THEN pc' = "fetch" /\ NoRaise
                     ELSE Raise(CommitError, "progress")
    /\ UNCHANGED <<tenant, now, client, idx, total_records, dataframes,
                   schemaExists, dest, log, prevSync, refVars, fnVars, getVars>>

\* the loop of run_sync leaving for explode after its first resource
AfterFetchFirst(i) == "explode"

\* lines 129-139: the next resource, or explode after the last one
AfterFetch(i) == IF i + 1 < Len(DASHBOARD_ENDPOINTS) THEN "progress" ELSE "explode"

\* lines 135-136 and _fetch_endpoint, which catches what it raises
FetchEndpoint ==
    /\ pc = "fetch"
    /\ \E pages \in PageSeqs, keys \in SUBSET KeyCols(Endpoint(idx).table_name) :
         LET t == Endpoint(idx).table_name
         IN /\ dataframes' =
                  [dataframes EXCEPT ![t] = FetchTable(pages, t, keys, @)]
            /\ total_records' = total_records + FetchReturn(pages)
            /\ log' = Append(log, [op |-> "fetch", arg |-> Endpoint(idx).name,
                                   flattened |-> FetchFlattened(pages),
                                   kept |-> FetchReturn(pages)])
    /\ idx' = idx + 1
    /\ pc' = AfterFetch(idx)
    /\ UNCHANGED <<job, dbJob, tenant, dbTenant, dirty, now, client,
                   schemaExists, dest, raised, raisedIn, prevSync, refVars, fnVars,
                   getVars>>

\* _explode_checkins on the accumulated tables: the tables afterwards, given
\* the number of rows the exploded table keeps
ExplodeCol(df) ==
    FirstMatch(<<"event_time_ids", "EventTime_ids", "event_times_ids">>, df.cols)

\* _explode_checkins without its check for the link column
ExplodeSkippedWithoutColumnCheck(dfs) ==
    \/ ~dfs["PC_CHECKINS"].present
    \/ dfs["PC_CHECKINS"].rows = 0

ExplodeSkipped(dfs) ==
    \/ ~dfs["PC_CHECKINS"].present
    \/ dfs["PC_CHECKINS"].rows = 0
    \/ ExplodeCol(dfs["PC_CHECKINS"]) = Null

\* line 139
ExplodeCheckins ==
    /\ pc = "explode"
    /\ log' = Logged("stage", "explode")
    /\ \/ /\ ExplodeSkipped(dataframes)
          /\ UNCHANGED dataframes
          /\ pc' = "enrich_event_times" /\ NoRaise
       \/ /\ ~ExplodeSkipped(dataframes)
          /\ \E n \in 0..(dataframes["PC_CHECKINS"].rows * MaxLinks) :
               dataframes' = [dataframes EXCEPT !["PC_CHECKINS"].rows = n]
          /\ pc' = "enrich_event_times" /\ NoRaise
       \/ /\ ~ExplodeSkipped(dataframes)
          /\ UNCHANGED dataframes
          /\ Raise(UnexpectedError, "explode")
    /\ UNCHANGED <<job, dbJob, tenant, dbTenant, dirty, now, client, idx,
                   total_records, schemaExists, dest, prevSync, refVars, fnVars,
                   getVars>>

\* _enrich_event_times: the columns PC_EVENT_TIMES gains from PC_EVENTS
EventTimesGain(dfs) ==
    LET et == dfs["PC_EVENT_TIMES"]
        ev == dfs["PC_EVENTS"]
    IN IF \/ ~et.present \/ ~ev.present
          \/ et.rows = 0 \/ ev.rows = 0
          \/ FirstMatch(<<"event_id", "events_id", "event_ids">>, et.cols) = Null
          \/ FirstMatch(<<"event_id", "events_id", "id">>, ev.cols) = Null
       THEN {}
       ELSE (IF "name" \in ev.cols /\ "event_name" \notin et.cols
             THEN {"event_name"} ELSE {})
            \cup (IF "frequency" \in ev.cols /\ "event_frequency" \notin et.cols
                  THEN {"event_frequency"} ELSE {})

\* line 142
EnrichEventTimes ==
    /\ pc = "enrich_event_times"
    /\ log' = Logged("stage", "enrich_event_times")
    /\ \/ /\ dataframes' = [dataframes EXCEPT !["PC_EVENT_TIMES"].cols =
                                @ \cup EventTimesGain(dataframes)]
          /\ pc' = "enrich_checkins" /\ NoRaise
       \/ /\ EventTimesGain(dataframes) # {}
          /\ UNCHANGED dataframes
          /\ Raise(UnexpectedError, "enrich_event_times")
    /\ UNCHANGED <<job, dbJob, tenant, dbTenant, dirty, now, client, idx,
                   total_records, schemaExists, dest, prevSync, refVars, fnVars,
                   getVars>>

\* _enrich_checkins: the columns PC_CHECKINS gains from PC_EVENT_TIMES ...
CheckinsGainFromEventTimes(dfs) ==
    LET ck == dfs["PC_CHECKINS"]
        et == dfs["PC_EVENT_TIMES"]
    IN IF \/ ExplodeCol(ck) = Null
          \/ ~et.present \/ et.rows = 0
          \/ FirstMatch(<<"event_time_id", "event_times_id", "id">>, et.cols) = Null
       THEN {}
       ELSE (IF "starts_at" \in et.cols /\ "event_starts_at" \notin ck.cols
             THEN {"event_starts_at"} ELSE {})
            \cup (IF "event_name" \in et.cols /\ "event_name" \notin ck.cols
                  THEN {"event_name"} ELSE {})
            \cup (IF "event_frequency" \in et.cols /\ "event_frequency" \notin ck.cols
                  THEN {"event_frequency"} ELSE {})

\* ... and from PC_PEOPLE
CheckinsGainFromPeople(dfs) ==
    LET ck == dfs["PC_CHECKINS"]
        pp == dfs["PC_PEOPLE"]
    IN IF \/ FirstMatch(<<"person_id", "people_id", "persons_id">>, ck.cols) = Null
          \/ ~pp.present \/ pp.rows = 0
          \/ FirstMatch(<<"people_id", "person_id", "id">>, pp.cols) = Null
       THEN {}
       ELSE (IF "gender" \in pp.cols /\ "person_gender" \notin ck.cols
             THEN {"person_gender"} ELSE {})
            \cup (IF "birthdate" \in pp.cols /\ "person_birthdate" \notin ck.cols
                  THEN {"person_birthdate"} ELSE {})

CheckinsGain(dfs) ==
    IF ~dfs["PC_CHECKINS"].present \/ dfs["PC_CHECKINS"].rows = 0
    THEN {}
    ELSE CheckinsGainFromEventTimes(dfs) \cup CheckinsGainFromPeople(dfs)

\* line 143
EnrichCheckins ==
    /\ pc = "enrich_checkins"
    /\ log' = Logged("stage", "enrich_checkins")
    /\ \/ /\ dataframes' = [dataframes EXCEPT !["PC_CHECKINS"].cols =
                                @ \cup CheckinsGain(dataframes)]
          /\ pc' = "ensure_schema" /\ NoRaise
       \/ /\ CheckinsGain(dataframes) # {}
          /\ UNCHANGED dataframes
          /\ Raise(UnexpectedError, "enrich_checkins")
    /\ UNCHANGED <<job, dbJob, tenant, dbTenant, dirty, now, client, idx,
                   total_records, schemaExists, dest, prevSync, refVars, fnVars,
                   getVars>>

(***************************************************************************)
(* _load_to_database: the destination schema and its tables.               *)
(***************************************************************************)
\* a destination table: its rows, its columns and whether its rows are
\* those this run wrote
AbsentTable == [present |-> FALSE, rows |-> 0, cols |-> {}, fresh |-> FALSE]
PreviousTable ==
    [present |-> TRUE, rows |-> 1, cols |-> {"previous_run"}, fresh |-> FALSE]

\* to_sql appending to what the table held
WrittenAppended(df) ==
    [present |-> TRUE, rows |-> df.rows + PreviousTable.rows,
     cols |-> df.cols \cup PreviousTable.cols, fresh |-> FALSE]

\* lines 505-518: DROP TABLE IF EXISTS, then to_sql(if_exists='replace')
Written(df) ==
    [present |-> TRUE, rows |-> df.rows, cols |-> df.cols, fresh |-> TRUE]

\* a failed write undoing the whole load
WriteFailedRollsBack(d, t) ==
    [u \in DOMAIN d |-> IF prevSync = NoValue THEN AbsentTable
                        ELSE PreviousTable]

\* lines 505-524: the drop is committed by its own engine.begin() block, and
\* to_sql raises: the table is gone and nothing else is touched
WriteFailed(d, t) == [d EXCEPT ![t] = AbsentTable]

DatabaseError == "DBAPIError"

\* line 146 and _ensure_schema_exists
EnsureSchema ==
    /\ pc = "ensure_schema"
    /\ \E ok \in BOOLEAN :
         IF ok
         THEN /\ schemaExists' = TRUE
              /\ log' = IF schemaExists THEN Logged("stage", "load")
                        ELSE Append(Logged("stage", "load"),
                                    [op |-> "create_schema", arg |-> Null])
              /\ idx' = 0
              /\ pc' = "load" /\ NoRaise
         ELSE /\ UNCHANGED <<schemaExists, idx>>
              /\ log' = Logged("stage", "load")
              /\ Raise(DatabaseError, "load")
    /\ UNCHANGED <<job, dbJob, tenant, dbTenant, dirty, now, client,
                   total_records, dataframes, dest, prevSync, refVars, fnVars,
                   getVars>>

AfterTable(i) == IF i + 1 < Len(DASHBOARD_ENDPOINTS) THEN "load" ELSE "finalize"

\* the loop of _load_to_database replacing every table of the catalog
LoadSkipsNothing(df) == FALSE

\* lines 494-496: a table that was not accumulated is not in the dictionary,
\* and an empty one is passed over
LoadSkips(df) == ~df.present \/ df.rows = 0

\* one iteration of the loop of _load_to_database (lines 494-524); a table
\* that was never accumulated is not in the dictionary and has no iteration
LoadTable ==
    /\ pc = "load"
    /\ LET t == Endpoint(idx).table_name
           df == dataframes[t]
       IN \/ /\ LoadSkips(df)
             /\ UNCHANGED <<dest, log>>
             /\ idx' = idx + 1
             /\ pc' = AfterTable(idx) /\ NoRaise
          \/ /\ ~LoadSkips(df)
             /\ UNCHANGED <<dest, log, idx>>
             /\ Raise(DatabaseError, "load")
          \/ /\ ~LoadSkips(df)
             /\ dest' = WriteFailed(dest, t)
             /\ log' = Logged("drop", t)
             /\ UNCHANGED idx
             /\ Raise(DatabaseError, "load")
          \/ /\ ~LoadSkips(df)
             /\ dest' = [dest EXCEPT ![t] = Written(df)]
             /\ log' = Append(Logged("drop", t), [op |-> "write", arg |-> t])
             /\ idx' = idx + 1
             /\ pc' = AfterTable(idx) /\ NoRaise
    /\ UNCHANGED <<job, dbJob, tenant, dbTenant, dirty, now, client,
                   total_records, dataframes, schemaExists, prevSync, refVars, fnVars,
                   getVars>>

\* lines 148-154: stamp the tenant, mark_completed, commit, return True
Finalize ==
    /\ pc = "finalize"
    /\ \E ok \in BOOLEAN :
         LET t == [tenant EXCEPT !.last_data_refresh = now]
             j == mark_completed(job, now + 1, total_records)
         IN /\ tenant' = t
            /\ job' = j
            /\ Commit(ok, j, t,
                      dirty \cup {"last_data_refresh", "status", "completed_at",
                                  "records_fetched"})
            /\ IF ok THEN pc' = "returned_true" /\ NoRaise
                     ELSE Raise(CommitError, "finalize")
    /\ now' = now + 2
    /\ log' = Logged("stage", "finalize")
    /\ UNCHANGED <<client, idx, total_records, dataframes, schemaExists, dest,
                   prevSync, refVars, fnVars, getVars>>

\* lines 156-160: mark_failed(str(e)), commit, return False; an exception of
\* this commit leaves run_sync and is logged by run_data_refresh
HandleException ==
    /\ pc = "except"
    /\ \E ok \in BOOLEAN :
         LET j == mark_failed(job, now, raised)
         IN /\ job' = j
            /\ Commit(ok, j, tenant,
                      dirty \cup {"status", "completed_at", "error_message"})
            /\ pc' = IF ok THEN "returned_false" ELSE "escaped"
    /\ now' = now + 1
    /\ UNCHANGED <<tenant, client, idx, total_records, dataframes,
                   schemaExists, dest, raised, raisedIn, log, prevSync,
                   refVars, fnVars, getVars>>

(***************************************************************************)
(* Idle values of the parts a specification does not run.                  *)
(***************************************************************************)
RunIdle ==
    /\ pc = "idle" /\ job = NewJob /\ dbJob = NewJob
    /\ tenant = [has_credentials |-> TRUE, last_data_refresh |-> NoValue]
    /\ dbTenant = tenant /\ dirty = {} /\ now = 1 /\ client = FALSE
    /\ idx = 0 /\ total_records = 0
    /\ dataframes = [t \in Tables |-> AbsentDF]
    /\ schemaExists = FALSE /\ dest = [t \in Tables |-> AbsentTable]
    /\ raised = Null /\ raisedIn = Null /\ log = <<>> /\ prevSync = NoValue

RefreshIdle == jobs = <<>> /\ reqs = <<>>

GetIdle ==
    /\ gpc = "idle" /\ retry_count = 0 /\ attempts = <<>> /\ sleeps = <<>>
    /\ result = [kind |-> "none", error |-> Null]

PagesIdle ==
    /\ upstream = <<>> /\ ppc = "idle" /\ page_num = 0 /\ offset = 0
    /\ fetched = <<>> /\ per_page = 0 /\ calls = <<>> /\ fetch_out = <<>>

FlattenIdle ==
    /\ api_response = <<>> /\ fpc = "idle" /\ processed_data = <<>>
    /\ parsed_ids = <<>>

ExplodeIdle == ids_column = <<>> /\ xpc = "idle" /\ df_exploded = <<>>

JoinIdle == join = <<>> /\ jpc = "idle" /\ enriched = <<>>

DtypeIdle == column = <<>> /\ dpc = "idle" /\ dtype_mapping = <<>>

TzIdle == ts_column = <<>> /\ tpc = "idle" /\ converted = <<>>

StepIdle == ExplodeIdle /\ JoinIdle /\ DtypeIdle /\ TzIdle

FnIdle == PagesIdle /\ FlattenIdle /\ StepIdle

(***************************************************************************)
(* Spec: run_data_refresh has loaded a pending job and its tenant (the     *)
(* refresh endpoint creates a job only for a tenant with credentials); the *)
(* destination schema is absent or holds the tables of an earlier run.     *)
(***************************************************************************)
\* a job exists only for a tenant with credentials (api/data.py line 47) and
\* no route clears them, so the run starts with has_credentials true
Init ==
    /\ pc = "mark_started"
    /\ job = NewJob /\ dbJob = NewJob
    /\ \E h \in {"never run", "completed before"} :
         /\ tenant = [has_credentials |-> TRUE,
                      last_data_refresh |->
                          IF h = "completed before" THEN 0 ELSE NoValue]
         /\ schemaExists = (h # "never run")
         /\ dest = [t \in Tables |-> IF h = "completed before"
                                     THEN PreviousTable ELSE AbsentTable]
    /\ dbTenant = tenant /\ prevSync = tenant.last_data_refresh
    /\ dirty = {} /\ now = 1 /\ client = FALSE /\ idx = 0 /\ total_records = 0
    /\ dataframes = [t \in Tables |-> AbsentDF]
    /\ raised = Null /\ raisedIn = Null /\ log = <<>>
    /\ RefreshIdle /\ GetIdle /\ FnIdle

Next ==
    \/ MarkStarted
    \/ InitClient
    \/ TestConnection
    \/ UpdateProgress
    \/ FetchEndpoint
    \/ ExplodeCheckins
    \/ EnrichEventTimes
    \/ EnrichCheckins
    \/ EnsureSchema
    \/ LoadTable
    \/ Finalize
    \/ HandleException

Spec == Init /\ [][Next]_vars

(***************************************************************************)
(* What the log and the rows say about a run.                              *)
(***************************************************************************)
LogOps(ops) == {i \in DOMAIN log : log[i].op \in ops}

FetchesDone == Cardinality(LogOps({"fetch"}))

ConnectionTestFailed ==
    \E i \in LogOps({"test_connection"}) : log[i].arg # Null

Returned == pc \in {"returned_true", "returned_false", "escaped"}

Terminal(status) == status \in {"completed", "failed"}

\* the destination as the run found it
InitialTable == IF prevSync = NoValue THEN AbsentTable ELSE PreviousTable

(***************************************************************************)
(* C1 as stated: the status of the job moves only pending -> running ->    *)
(* completed or pending -> running -> failed, and once it is completed or  *)
(* failed the orchestrator changes no field of the job again.              *)
(***************************************************************************)
C1_Original ==
    [][ /\ job.status = "pending" => job'.status \in {"pending", "running"}
        /\ job.status = "running"
              => job'.status \in {"running", "completed", "failed"}
        /\ Terminal(job.status) => job' = job ]_vars

(***************************************************************************)
(* C1 amended: the status of the job object moves pending -> running ->    *)
(* completed or pending -> running -> failed, except that when the final   *)
(* commit raises after mark_completed the except clause moves it from      *)
(* completed to failed; the committed status moves pending -> running ->   *)
(* completed or failed, or pending -> failed when the first commit raised; *)
(* once the committed status is completed or failed, neither the committed *)
(* row nor the job object is changed again.                                *)
(***************************************************************************)
C1_Amended ==
    [][ /\ job.status = "pending" => job'.status \in {"pending", "running"}
        /\ job.status = "running"
              => job'.status \in {"running", "completed", "failed"}
        /\ job.status = "completed"
              => \/ job' = job
                 \/ /\ raisedIn = "finalize" /\ dbJob.status = "running"
                    /\ job'.status = "failed"
        /\ job.status = "failed" => job' = job
        /\ dbJob.status = "pending"
              => dbJob'.status \in {"pending", "running", "failed"}
        /\ dbJob.status = "running"
              => dbJob'.status \in {"running", "completed", "failed"}
        /\ Terminal(dbJob.status) => dbJob' = dbJob /\ job' = job ]_vars

\* the final commit raised and the except clause has marked the job failed
C1_Witness ==
    /\ pc = "returned_false" /\ raisedIn = "finalize"
    /\ job.status = "failed" /\ dbJob.status = "failed"

(***************************************************************************)
(* C3: an exception that escapes a stage of run_sync leaves the job with   *)
(* status failed and error_message equal to the exception's string form,   *)
(* and nothing of the pipeline runs after it: no stage, fetch or           *)
(* destination statement is issued and no table changes.                   *)
(***************************************************************************)
C3_FailedWithMessage ==
    [](raised # Null /\ pc # "except"
          => job.status = "failed" /\ job.error_message = raised)
    /\ [][raised # Null
             => /\ pc' \in {"returned_false", "escaped"}
                /\ raised' = raised
                /\ log' = log /\ dataframes' = dataframes
                /\ dest' = dest /\ schemaExists' = schemaExists
                /\ tenant' = tenant /\ dbTenant' = dbTenant]_vars

\* an exception escaped the explode stage and the run has returned
C3_Witness ==
    /\ pc = "returned_false" /\ raisedIn = "explode"
    /\ job.error_message = UnexpectedError

(***************************************************************************)
(* C4: when test_connection reports failure the job becomes failed, no     *)
(* configured resource is fetched, no destination schema or table is       *)
(* created, dropped or written, and last_data_refresh keeps its value.     *)
(***************************************************************************)
C4_ConnectionFailureStopsRun ==
    ConnectionTestFailed
        => /\ pc \in {"except", "returned_false", "escaped"}
           /\ pc # "except" => job.status = "failed"
           /\ LogOps({"fetch", "create_schema", "drop", "write"}) = {}
           /\ \A t \in Tables : ~dataframes[t].present /\ dest[t] = InitialTable
           /\ schemaExists = (prevSync # NoValue)
           /\ tenant.last_data_refresh = prevSync
           /\ dbTenant.last_data_refresh = prevSync

\* the connection test failed and the run has returned
C4_Witness ==
    /\ ConnectionTestFailed /\ pc = "returned_false"
    /\ dbJob.status = "failed"

(***************************************************************************)
(* C5 as stated: a run ends failed only because of a connectivity          *)
(* failure, a credential decryption failure or an exception in the load    *)
(* stage.                                                                  *)
(***************************************************************************)
C5_Original ==
    job.status = "failed"
        => raisedIn \in {"test_connection", "init_client", "load"}

(***************************************************************************)
(* C5 amended: a run ends failed only because an exception escaped a stage *)
(* of run_sync - a credential or connectivity failure, a load-stage        *)
(* exception, an unexpected exception of the explode or enrich code, or a  *)
(* commit of the job row that raised; a missing expected column during     *)
(* explode or enrich is not such an exception: the step is skipped, the    *)
(* tables are left unchanged by it and the run goes on to the load stage.  *)
(***************************************************************************)
C5_Amended ==
    [](job.status = "failed"
          => /\ raised # Null
             /\ raisedIn \in {"init_client", "test_connection", "load",
                              "explode", "enrich_event_times",
                              "enrich_checkins", "mark_started", "progress",
                              "finalize"})
    /\ [][ /\ (pc = "explode" /\ ExplodeCol(dataframes["PC_CHECKINS"]) = Null)
              => /\ pc' = "enrich_event_times" /\ raised' = Null
                 /\ dataframes' = dataframes
           /\ (/\ pc = "enrich_event_times"
               /\ FirstMatch(<<"event_id", "events_id", "event_ids">>,
                             dataframes["PC_EVENT_TIMES"].cols) = Null)
              => /\ pc' = "enrich_checkins" /\ raised' = Null
                 /\ dataframes' = dataframes
           /\ (/\ pc = "enrich_checkins"
               /\ ExplodeCol(dataframes["PC_CHECKINS"]) = Null
               /\ FirstMatch(<<"person_id", "people_id", "persons_id">>,
                             dataframes["PC_CHECKINS"].cols) = Null)
              => /\ pc' = "ensure_schema" /\ raised' = Null
                 /\ dataframes' = dataframes ]_vars

\* check-ins were fetched without their link column and the run reached the
\* load stage with the table as fetched
C5_Witness ==
    /\ pc = "load" /\ raised = Null
    /\ dataframes["PC_CHECKINS"].present
    /\ dataframes["PC_EVENT_TIMES"].present
    /\ dataframes["PC_CHECKINS"].cols = BaseCols("PC_CHECKINS")

(***************************************************************************)
(* C6: the committed last_data_refresh of the tenant is written at most    *)
(* once in a run and only on success: it differs from the value the run    *)
(* found if and only if the job ended completed, and the commit that       *)
(* changes it is the one that records status completed and                 *)
(* records_fetched.                                                        *)
(***************************************************************************)
C6_StampOnlyOnSuccess ==
    [](/\ (dbTenant.last_data_refresh # prevSync) <=> (dbJob.status = "completed")
       /\ (dbJob.status = "completed") <=> (pc = "returned_true")
       /\ pc = "returned_true"
             => /\ job.status = "completed"
                /\ dbJob.records_fetched = total_records)
    /\ [][dbTenant' # dbTenant
             => /\ dbTenant.last_data_refresh = prevSync
                /\ dbJob.status = "running" /\ dbJob'.status = "completed"
                /\ dbJob'.records_fetched = total_records]_vars

\* a run that fetched rows completed and stamped the tenant
C6_Witness ==
    /\ pc = "returned_true" /\ dbTenant.last_data_refresh # prevSync
    /\ dbJob.records_fetched > 0

(***************************************************************************)
(* C7: completed_endpoints never decreases within a run, neither on the    *)
(* job object nor in the committed row.                                    *)
(***************************************************************************)
C7_ProgressMonotone ==
    [][ /\ job'.completed_endpoints >= job.completed_endpoints
        /\ dbJob'.completed_endpoints >= dbJob.completed_endpoints ]_vars

\* progress has been committed for the last configured resource
C7_Witness ==
    /\ dbJob.completed_endpoints = Len(DASHBOARD_ENDPOINTS) - 1
    /\ dbJob.current_endpoint = Endpoint(Len(DASHBOARD_ENDPOINTS) - 1).endpoint

(***************************************************************************)
(* C8 as stated: once the fetch of the k-th configured resource has        *)
(* finished the committed completed_endpoints is k, and a job that reaches *)
(* status completed has completed_endpoints equal to total_endpoints.      *)
(***************************************************************************)
C8_Original ==
    /\ (FetchesDone > 0 /\ pc \in {"progress", "explode"})
          => dbJob.completed_endpoints = FetchesDone
    /\ dbJob.status = "completed"
          => dbJob.completed_endpoints = dbJob.total_endpoints

(***************************************************************************)
(* SpecRefresh: POST /refresh (start_data_refresh) for one tenant.  The    *)
(* handler queries for a pending or running job and, finding none,         *)
(* inserts a new job and commits.  Nothing in the handler or in the        *)
(* schema ties the query to the insert (no lock, no unique constraint), so *)
(* for requests served by different worker processes the database sees     *)
(* the two statements of one request interleaved with those of another.    *)
(* The background run of a job moves its committed status as run_sync      *)
(* does.                                                                   *)
(***************************************************************************)
Requests == 1..MaxRequests

NonTerminalJobs == {j \in DOMAIN jobs : jobs[j] \in {"pending", "running"}}

\* lines 53-63: the query for an existing job, and the 400 when there is one
RefreshCheck(r) ==
    /\ reqs[r] = "received"
    /\ reqs' = [reqs EXCEPT ![r] = IF NonTerminalJobs # {} THEN "rejected"
                                   ELSE "checked"]
    /\ UNCHANGED <<jobs, runVars, getVars, fnVars>>

\* lines 65-82: insert the job (status pending), commit, add the background task
RefreshCreate(r) ==
    /\ reqs[r] = "checked"
    /\ jobs' = Append(jobs, NewJob.status)
    /\ reqs' = [reqs EXCEPT ![r] = "started"]
    /\ UNCHANGED <<runVars, getVars, fnVars>>

\* run_data_refresh for job j: the first commit of run_sync
RunStarts(j) ==
    /\ jobs[j] = "pending"
    /\ jobs' = [jobs EXCEPT ![j] = mark_started(NewJob, now).status]
    /\ UNCHANGED <<reqs, runVars, getVars, fnVars>>

\* run_data_refresh for job j: the last commit of run_sync
RunEnds(j) ==
    /\ jobs[j] = "running"
    /\ \/ jobs' = [jobs EXCEPT ![j] = mark_completed(NewJob, now, 0).status]
       \/ jobs' = [jobs EXCEPT ![j] = mark_failed(NewJob, now, Null).status]
    /\ UNCHANGED <<reqs, runVars, getVars, fnVars>>

InitRefresh ==
    /\ jobs = <<>>
    /\ reqs = [r \in Requests |-> "received"]
    /\ RunIdle /\ GetIdle /\ FnIdle

NextRefresh ==
    \/ \E r \in Requests : RefreshCheck(r)
    \/ \E r \in Requests : RefreshCreate(r)
    \/ \E j \in DOMAIN jobs : RunStarts(j)
    \/ \E j \in DOMAIN jobs : RunEnds(j)

SpecRefresh == InitRefresh /\ [][NextRefresh]_vars

(***************************************************************************)
(* C2 as stated: at any time at most one job of the tenant is pending or   *)
(* running, for every interleaving of refresh requests and sync runs.      *)
(***************************************************************************)
C2_Original == Cardinality(NonTerminalJobs) <= 1

(***************************************************************************)
(* SpecGet: the retry loop of PCOClient.get for one request.  An attempt   *)
(* is one call of self._session.get followed by raise_for_status; its      *)
(* outcome is what the server and the network give.  The adapter mounted   *)
(* by _setup_session (urllib3 Retry, total=3, statuses 429 and 5xx) works  *)
(* inside self._session.get: what get sees of it is one outcome per call,  *)
(* a response or a RequestException.  The outcomes here are those the      *)
(* branches of get distinguish: a 429 response (line 104), a response      *)
(* that passes raise_for_status, and a RequestException (line 119).        *)
(***************************************************************************)
max_retries == 5
RetryAfterDefault == 60

Outcomes ==
    {[kind |-> k, retry_after |-> NoValue] : k \in {"ok", "conn", "5xx", "4xx"}}
        \cup {[kind |-> "429", retry_after |-> h] : h \in {NoValue, 2, 3}}

\* the attempt ends in the except clause: session.get raised, or
\* raise_for_status raised HTTPError for a 4xx or 5xx status
RaisesRequestException(o) == o.kind \in {"conn", "5xx", "4xx"}

\* the error an attempt met
ErrorOf(o) ==
    CASE o.kind = "conn" -> "ConnectionError"
      [] o.kind = "5xx" -> "HTTPError: Server Error"
      [] o.kind = "4xx" -> "HTTPError: Client Error"
      [] o.kind = "429" -> "429 Too Many Requests"
      [] OTHER -> Null

\* _handle_rate_limit ignoring the Retry-After header
RateLimitWaitDefault(o) == RetryAfterDefault

\* _handle_rate_limit: the seconds slept for a 429 response
RateLimitWait(o) ==
    IF o.retry_after = NoValue THEN RetryAfterDefault ELSE o.retry_after

\* one iteration of the while loop (lines 96-128)
GetAttempt ==
    /\ gpc = "loop" /\ retry_count < max_retries
    /\ \E o \in Outcomes :
         /\ attempts' = Append(attempts, o)
         /\ \/ /\ o.kind = "429"
               /\ sleeps' = Append(sleeps, RateLimitWait(o))
               /\ retry_count' = retry_count + 1
               /\ UNCHANGED <<gpc, result>>
            \/ /\ o.kind = "ok"
               /\ gpc' = "returned"
               /\ result' = [kind |-> "json", error |-> Null]
               /\ UNCHANGED <<retry_count, sleeps>>
            \/ /\ RaisesRequestException(o)
               /\ retry_count' = retry_count + 1
               /\ IF retry_count + 1 >= max_retries
                  THEN /\ gpc' = "raised"
                       /\ result' = [kind |-> "raise", error |-> ErrorOf(o)]
                       /\ UNCHANGED sleeps
                  ELSE /\ sleeps' = Append(sleeps, 2 ^ (retry_count + 1))
                       /\ UNCHANGED <<gpc, result>>
    /\ UNCHANGED <<runVars, refVars, fnVars>>

\* line 130: the loop ended without returning or raising
GetExhausted ==
    /\ gpc = "loop" /\ retry_count >= max_retries
    /\ gpc' = "raised"
    /\ result' = [kind |-> "raise", error |-> "Failed to fetch after retries"]
    /\ UNCHANGED <<retry_count, attempts, sleeps, runVars, refVars, fnVars>>

InitGet ==
    /\ gpc = "loop" /\ retry_count = 0 /\ attempts = <<>> /\ sleeps = <<>>
    /\ result = [kind |-> "none", error |-> Null]
    /\ RunIdle /\ RefreshIdle /\ FnIdle

NextGet == GetAttempt \/ GetExhausted

SpecGet == InitGet /\ [][NextGet]_vars

(***************************************************************************)
(* C9 as stated: get makes another attempt only after a transport-level    *)
(* failure (a connection error, a 5xx response or HTTP 429), and at most 5 *)
(* attempts in total.                                                      *)
(***************************************************************************)
C9_Original ==
    /\ Len(attempts) <= max_retries
    /\ \A i \in 1..(Len(attempts) - 1) :
           attempts[i].kind \in {"conn", "5xx", "429"}

RateLimited == {i \in DOMAIN attempts : attempts[i].kind = "429"}

\* every attempt that did not end get is followed by one sleep, so the
\* i-th sleep is the wait of the i-th attempt
C11_OneWaitOfRetryAfter ==
    /\ Len(sleeps) <= Len(attempts)
    /\ \A i \in RateLimited :
         /\ i <= Len(sleeps)
         /\ sleeps[i] = IF attempts[i].retry_after = NoValue THEN 60
                        ELSE attempts[i].retry_after

MaxServed == 3      \* responses upstream has ready for one endpoint
MaxItems == 2       \* data items of one response

Absent == "ABSENT"  \* a key the dict does not have

\* the data items of the k-th response: n items, told apart by page and place
Items(k, n) == [j \in 1..n |-> <<k, j>>]

\* what one request is answered with: get raises, or a response with n
\* data items and a links.next
Answers ==
    {[raises |-> TRUE, n |-> 0, next |-> Absent]}
        \cup [raises : {FALSE}, n : 0..MaxItems,
              next : {Absent, "", "https://next"}]

Upstreams(served) ==
    {[k \in DOMAIN a |-> [raises |-> a[k].raises, data |-> Items(k, a[k].n),
                          next |-> a[k].next]] :
        a \in UNION {[1..n -> Answers] : n \in 1..served}}

\* self.get for the k-th request
Served(k) ==
    IF k <= Len(upstream) THEN upstream[k]
    ELSE [raises |-> FALSE, data |-> <<>>, next |-> Absent]

\* line 170 with the next link ignored
NoNextLinkNever(response) == FALSE

\* line 170: if not data_items
NoDataItems(response) == response.data = <<>>

\* line 182: if 'next' not in links or not links['next']
NoNextLink(response) == response.next = Absent \/ response.next = ""

PageSizeCap == 100  \* min(per_page, 100)

PageDelay == 100    \* time.sleep(0.1), in milliseconds

\* the page size sent as it was asked for
Uncapped(requested) == requested

\* line 155: params['per_page'] = min(per_page, 100)
Capped(requested) == IF requested < PageSizeCap THEN requested ELSE PageSizeCap

\* a request with its query parameters, and a delay
Request(size, at) == [op |-> "get", per_page |-> size, offset |-> at]

Sleep(ms) == [op |-> "sleep", ms |-> ms]

\* one iteration of the while loop (lines 160-189)
GetPage ==
    /\ ppc = "loop"
    /\ page_num' = page_num + 1
    /\ LET response == Served(page_num + 1)
           request == Request(Capped(per_page), offset)
       IN IF response.raises
          THEN /\ ppc' = "raised" /\ UNCHANGED <<fetched, offset>>
               /\ calls' = Append(calls, request)
          ELSE IF NoDataItems(response)
          THEN /\ ppc' = "returned" /\ UNCHANGED <<fetched, offset>>
               /\ calls' = Append(calls, request)
          ELSE /\ fetched' = fetched \o response.data
               /\ IF NoNextLink(response)
                  THEN /\ ppc' = "returned" /\ UNCHANGED offset
                       /\ calls' = Append(calls, request)
                  ELSE /\ ppc' = "loop" /\ offset' = offset + Len(response.data)
                       /\ calls' = calls \o <<request, Sleep(PageDelay)>>
    /\ UNCHANGED <<upstream, per_page, fetch_out, flatVars, stepVars, runVars,
                   refVars, getVars>>

InitPages ==
    /\ upstream \in Upstreams(MaxServed)
    /\ ppc = "loop" /\ page_num = 0 /\ offset = 0 /\ fetched = <<>>
    /\ per_page \in {50, 150}
    /\ calls = <<>> /\ fetch_out = <<>>
    /\ RunIdle /\ RefreshIdle /\ GetIdle /\ FlattenIdle /\ StepIdle

NextPages == GetPage

SpecPages == InitPages /\ [][NextPages]_vars

(***************************************************************************)
(* C12: get_all_pages stops at the first response that has no data items   *)
(* or whose links.next is absent or empty, requests no page after it, and  *)
(* returns the data arrays of the responses it fetched, concatenated in    *)
(* page order.                                                             *)
(***************************************************************************)
\* the first request whose response ends the pagination
RECURSIVE LastRequest(_)
LastRequest(k) ==
    IF k > Len(upstream) THEN k
    ELSE IF \/ Len(upstream[k].data) = 0
            \/ upstream[k].next \notin {"https://next"}
         THEN k
         ELSE LastRequest(k + 1)

RECURSIVE DataOfPages(_)
DataOfPages(k) ==
    IF k = 0 THEN <<>>
    ELSE IF k > Len(upstream) THEN DataOfPages(Len(upstream))
    ELSE DataOfPages(k - 1) \o upstream[k].data

C12_StopsAtLastPage ==
    /\ page_num <= LastRequest(1)
    /\ ppc = "returned"
          => /\ page_num = LastRequest(1)
             /\ fetched = DataOfPages(page_num)

\* three responses, the third without data: three requests, and the items of
\* the first two pages returned in page order
C12_Witness ==
    /\ ppc = "returned" /\ Len(upstream) = 3 /\ page_num = 3
    /\ Len(upstream[3].data) = 0
    /\ fetched = <<<<1, 1>>, <<1, 2>>, <<2, 1>>, <<2, 2>>>>

(***************************************************************************)
(* C13: when a run completes, for every non-empty accumulated table the    *)
(* destination table holds exactly the rows and columns of the accumulated *)
(* table, written by this run, and nothing of what an earlier run left.    *)
(***************************************************************************)
C13_FullReplace ==
    pc = "returned_true"
        => \A t \in Tables :
              (dataframes[t].present /\ dataframes[t].rows > 0)
                 => dest[t] = [present |-> TRUE, rows |-> dataframes[t].rows,
                               cols |-> dataframes[t].cols, fresh |-> TRUE]

\* two people fetched without relationships over tables of an earlier run:
\* the destination has exactly the two rows, people_id and no _ids column
C13_Witness ==
    /\ pc = "returned_true" /\ prevSync # NoValue
    /\ dataframes["PC_PEOPLE"].rows = 2
    /\ dest["PC_PEOPLE"].rows = 2 /\ dest["PC_PEOPLE"].fresh
    /\ dest["PC_PEOPLE"].cols = {"people_id", "gender", "birthdate"}

(***************************************************************************)
(* C14: if the bulk write of a destination table fails, the job becomes    *)
(* failed, every table loaded earlier in the run keeps its new contents,   *)
(* and no table later in the load order is dropped or written.             *)
(***************************************************************************)
TableIndex(t) == CHOOSE i \in 0..(Len(DASHBOARD_ENDPOINTS) - 1) :
                    Endpoint(i).table_name = t

\* the last statement issued is the drop of t and the load stage raised
BulkWriteFailed(t) ==
    /\ raisedIn = "load" /\ log # <<>>
    /\ log[Len(log)] = [op |-> "drop", arg |-> t]

C14_PartialLoadStays ==
    \A t \in Tables :
       BulkWriteFailed(t)
          => /\ pc \in {"except", "returned_false", "escaped"}
             /\ pc # "except" => job.status = "failed"
             /\ pc = "returned_false" => dbJob.status = "failed"
             /\ \A u \in Tables :
                  /\ (/\ TableIndex(u) < TableIndex(t)
                      /\ dataframes[u].present /\ dataframes[u].rows > 0)
                        => dest[u] = [present |-> TRUE,
                                      rows |-> dataframes[u].rows,
                                      cols |-> dataframes[u].cols,
                                      fresh |-> TRUE]
                  /\ TableIndex(u) > TableIndex(t)
                        => /\ dest[u] = InitialTable
                           /\ \A i \in LogOps({"drop", "write"}) :
                                 log[i].arg # u

\* the write of PC_EVENTS failed after PC_PEOPLE was replaced; the run has
\* returned with PC_EVENT_TIMES as the earlier run left it
C14_Witness ==
    /\ BulkWriteFailed("PC_EVENTS") /\ pc = "returned_false"
    /\ prevSync # NoValue
    /\ dest["PC_PEOPLE"].fresh
    /\ dataframes["PC_EVENT_TIMES"].rows > 0
    /\ dest["PC_EVENT_TIMES"] = PreviousTable

(***************************************************************************)
(* Python values and their text forms.  A value is None, a float NaN, an   *)
(* int, a str or a list of values; json.dumps, json.loads and              *)
(* ast.literal_eval work on the characters of the text.                    *)
(***************************************************************************)
PyNone == [t |-> "none"]
PyNaN == [t |-> "nan"]
PyInt(n) == [t |-> "int", v |-> n]
PyStr(s) == [t |-> "str", v |-> s]
PyList(l) == [t |-> "list", v |-> l]

\* bool(value)
Truthy(p) ==
    CASE p.t = "none" -> FALSE
      [] p.t = "nan" -> TRUE
      [] p.t = "int" -> p.v # 0
      [] p.t = "str" -> p.v # ""
      [] p.t = "list" -> p.v # <<>>

Char(s, i) == IF i >= 1 /\ i <= Len(s) THEN SubSeq(s, i, i) ELSE ""

Digits == {"0", "1", "2", "3", "4", "5", "6", "7", "8", "9"}

DigitValue(c) ==
    CASE c = "0" -> 0 [] c = "1" -> 1 [] c = "2" -> 2 [] c = "3" -> 3
      [] c = "4" -> 4 [] c = "5" -> 5 [] c = "6" -> 6 [] c = "7" -> 7
      [] c = "8" -> 8 [] c = "9" -> 9

\* str.isdigit()
IsDigit(s) == s # "" /\ \A i \in 1..Len(s) : Char(s, i) \in Digits

\* int(s) for a string of digits
RECURSIVE ToInt(_, _)
ToInt(s, n) ==
    IF n = 0 THEN 0 ELSE 10 * ToInt(s, n - 1) + DigitValue(Char(s, n))

\* str.strip() for blanks
RECURSIVE Strip(_)
Strip(s) ==
    IF s = "" THEN s
    ELSE IF Char(s, 1) = " " THEN Strip(SubSeq(s, 2, Len(s)))
    ELSE IF Char(s, Len(s)) = " " THEN Strip(SubSeq(s, 1, Len(s) - 1))
    ELSE s

\* json.dumps of a str: quotes and backslashes are escaped
RECURSIVE JsonEscape(_, _)
JsonEscape(s, i) ==
    IF i > Len(s) THEN ""
    ELSE (IF Char(s, i) \in {"\"", "\\"} THEN "\\" \o Char(s, i)
          ELSE Char(s, i)) \o JsonEscape(s, i + 1)

JsonString(s) == "\"" \o JsonEscape(s, 1) \o "\""

RECURSIVE JsonJoin(_, _)
JsonJoin(l, i) ==
    IF i > Len(l) THEN ""
    ELSE (IF i > 1 THEN ", " ELSE "") \o JsonString(l[i]) \o JsonJoin(l, i + 1)

\* json.dumps keeping only the first element
json_dumps_first(l) == "[" \o JsonJoin(SubSeq(l, 1, 1), 1) \o "]"

\* json.dumps of a list of str (convert_complex_type_to_json)
json_dumps(l) == "[" \o JsonJoin(l, 1) \o "]"

\* the parsers return [ok, v, next]: whether the text parsed, the value and
\* the position after it
ParseFailed == [ok |-> FALSE, v |-> PyNone, next |-> 0]

RECURSIVE SkipBlanks(_, _)
SkipBlanks(s, i) == IF Char(s, i) = " " THEN SkipBlanks(s, i + 1) ELSE i

\* the rest of a quoted string opened with quote character q
RECURSIVE ScanString(_, _, _, _)
ScanString(s, i, q, acc) ==
    IF i > Len(s) THEN ParseFailed
    ELSE IF Char(s, i) = q THEN [ok |-> TRUE, v |-> PyStr(acc), next |-> i + 1]
    ELSE IF Char(s, i) = "\\"
         THEN IF i + 1 > Len(s) THEN ParseFailed
              ELSE ScanString(s, i + 2, q, acc \o Char(s, i + 1))
    ELSE ScanString(s, i + 1, q, acc \o Char(s, i))

RECURSIVE EndOfDigits(_, _)
EndOfDigits(s, i) ==
    IF Char(s, i) \in Digits THEN EndOfDigits(s, i + 1) ELSE i

\* a scalar: a quoted string, a number without leading zeros, or the word
\* for nothing
ScanScalar(s, i, quotes, nothing) ==
    IF Char(s, i) \in quotes THEN ScanString(s, i + 1, Char(s, i), "")
    ELSE IF Char(s, i) \in Digits
         THEN LET e == EndOfDigits(s, i)
              IN IF Char(s, i) = "0" /\ e > i + 1 THEN ParseFailed
                 ELSE [ok |-> TRUE,
                       v |-> PyInt(ToInt(SubSeq(s, i, e - 1), e - i)),
                       next |-> e]
    ELSE IF /\ i >= 1 /\ i + Len(nothing) - 1 <= Len(s)
            /\ SubSeq(s, i, i + Len(nothing) - 1) = nothing
         THEN [ok |-> TRUE, v |-> PyNone, next |-> i + Len(nothing)]
    ELSE ParseFailed

\* the elements of a list after its opening bracket
RECURSIVE ScanElements(_, _, _, _, _)
ScanElements(s, i, acc, quotes, nothing) ==
    LET j == SkipBlanks(s, i)
    IN IF Char(s, j) = "]" /\ acc = <<>>
       THEN [ok |-> TRUE, v |-> PyList(acc), next |-> j + 1]
       ELSE LET e == ScanScalar(s, j, quotes, nothing)
                k == SkipBlanks(s, e.next)
            IN IF ~e.ok THEN ParseFailed
               ELSE IF Char(s, k) = ","
                    THEN ScanElements(s, k + 1, Append(acc, e.v), quotes, nothing)
               ELSE IF Char(s, k) = "]"
                    THEN [ok |-> TRUE, v |-> PyList(Append(acc, e.v)),
                          next |-> k + 1]
               ELSE ParseFailed

ParseText(s, quotes, nothing) ==
    LET j == SkipBlanks(s, 1)
        r == IF Char(s, j) = "[" THEN ScanElements(s, j + 1, <<>>, quotes, nothing)
             ELSE ScanScalar(s, j, quotes, nothing)
    IN IF r.ok /\ SkipBlanks(s, r.next) > Len(s) THEN r ELSE ParseFailed

\* json.loads: ok is false when it raises
json_loads(s) == ParseText(s, {"\""}, "null")

\* ast.literal_eval: ok is false when it raises
literal_eval(s) == ParseText(s, {"\"", "'"}, "None")

\* parsed if isinstance(parsed, list) else [parsed] if parsed else []
ListOf(parsed) ==
    IF parsed.t = "list" THEN parsed.v
    ELSE IF Truthy(parsed) THEN <<parsed>> ELSE <<>>

\* parse_event_time_ids (lines 29-62)
parse_event_time_ids(val) ==
    IF val.t = "list" THEN val.v
    ELSE IF val.t \in {"none", "nan"} THEN <<>>
    ELSE IF val.t = "str"
         THEN LET val_stripped == Strip(val.v)
                  n == Len(val_stripped)
                  looksJson ==
                      \/ Char(val_stripped, 1) = "[" /\ Char(val_stripped, n) = "]"
                      \/ Char(val_stripped, 1) = "\"" /\ Char(val_stripped, n) = "\""
              IN IF val_stripped = "" THEN <<>>
                 ELSE IF looksJson /\ json_loads(val_stripped).ok
                      THEN ListOf(json_loads(val_stripped).v)
                 ELSE IF literal_eval(val_stripped).ok
                      THEN ListOf(literal_eval(val_stripped).v)
                 ELSE IF IsDigit(val_stripped)
                      THEN <<PyInt(ToInt(val_stripped, n))>>
                 ELSE <<PyStr(val_stripped)>>
    ELSE <<val>>

(***************************************************************************)
(* process_jsonapi_response.  A dict is a function from its keys to its    *)
(* values; the attributes and relationships of an item are kept as         *)
(* sequences of <<key, value>> pairs, in the order the dict iterates.  A   *)
(* missing id is None (Null), a missing type is '' (item.get defaults).    *)
(***************************************************************************)
EmptyDict == [k \in {} |-> Null]

\* d[k] = v
Put(d, k, v) == [x \in DOMAIN d \cup {k} |-> IF x = k THEN v ELSE d[x]]

\* d[prefix + name] = value for the first n attributes
RECURSIVE PutAll(_, _, _, _)
PutAll(d, prefix, attrs, n) ==
    IF n = 0 THEN d
    ELSE Put(PutAll(d, prefix, attrs, n - 1),
             prefix \o attrs[n][1], attrs[n][2])

\* line 58 and line 98
LookupKey(item_id, item_type) == item_id \o "_" \o item_type

\* a lookup that finds nothing
IncludedLookupNothing(included, n) == EmptyDict

\* lines 53-58: included_lookup over the first n included items
RECURSIVE IncludedLookup(_, _)
IncludedLookup(included, n) ==
    IF n = 0 THEN EmptyDict
    ELSE LET d == IncludedLookup(included, n - 1)
             item == included[n]
         IN IF item.id # Null /\ item.id # "" /\ item.type # ""
            THEN Put(d, LookupKey(item.id, item.type), item)
            ELSE d

\* lines 84-86: rel_items of a relationship that has a data member
RelItems(data) ==
    CASE data.kind = "many" -> data.links
      [] data.kind = "one" -> <<data.link>>
      [] data.kind = "null" -> <<>>

\* lines 89-110 for the first n rel_items: the row and rel_ids
RECURSIVE RelItemsLoop(_, _, _, _)
RelItemsLoop(start, rel_items, n, lookup) ==
    IF n = 0 THEN start
    ELSE LET prev == RelItemsLoop(start, rel_items, n - 1, lookup)
             rel_item == rel_items[n]
         IN IF rel_item.id = Null \/ rel_item.id = "" THEN prev
            ELSE LET lookup_key == LookupKey(rel_item.id, rel_item.type)
                 IN [data_dict |->
                        IF lookup_key \in DOMAIN lookup
                        THEN PutAll(prev.data_dict, rel_item.type \o "_",
                                    lookup[lookup_key].attributes,
                                    Len(lookup[lookup_key].attributes))
                        ELSE prev.data_dict,
                     rel_ids |-> Append(prev.rel_ids, rel_item.id)]

\* lines 80-117 for one relationship
Relationship(data_dict, rel_name, rel_data, lookup) ==
    IF rel_data.kind \in {"none", "nodata"} THEN data_dict
    ELSE LET r == RelItemsLoop([data_dict |-> data_dict, rel_ids |-> <<>>],
                               RelItems(rel_data.data),
                               Len(RelItems(rel_data.data)), lookup)
             withId == IF Len(r.rel_ids) = 1
                       THEN Put(r.data_dict, rel_name \o "_id", r.rel_ids[1])
                       ELSE r.data_dict
         IN IF r.rel_ids = <<>> THEN r.data_dict
            ELSE Put(withId, rel_name \o "_ids", json_dumps(r.rel_ids))

RECURSIVE Relationships(_, _, _, _)
Relationships(data_dict, rels, n, lookup) ==
    IF n = 0 THEN data_dict
    ELSE Relationship(Relationships(data_dict, rels, n - 1, lookup),
                      rels[n][1], rels[n][2], lookup)

\* lines 62-119 for one item
FlattenItem(item, lookup) ==
    Relationships(PutAll(Put(EmptyDict, item.type \o "_id", item.id), "",
                         item.attributes, Len(item.attributes)),
                  item.relationships, Len(item.relationships), lookup)

\* lines 48-125: item.get on an item that is not a dict raises, and the
\* except clause returns [] for the page
process_jsonapi_response(r) ==
    IF \E i \in DOMAIN r.data : ~r.data[i].isdict THEN <<>>
    ELSE [i \in DOMAIN r.data |->
            FlattenItem(r.data[i], IncludedLookup(r.included, Len(r.included)))]

(***************************************************************************)
(* SpecFlatten: one check-ins page is flattened, then the _ids values of   *)
(* its rows are parsed as _explode_checkins parses them.                   *)
(***************************************************************************)
MaxData == 2        \* data items of the page

Link(type, id) == [type |-> type, id |-> id]
One(type, id) == [kind |-> "data", data |-> [kind |-> "one", link |-> Link(type, id)]]
Many(type, ids) ==
    [kind |-> "data",
     data |-> [kind |-> "many",
               links |-> [j \in DOMAIN ids |-> Link(type, ids[j])]]]
NullData == [kind |-> "data", data |-> [kind |-> "null"]]

PersonRels ==
    {<<>>, <<<<"person", One("Person", "7")>>>>,
     <<<<"person", One("Person", "8")>>>>}
CheckedInByRels == {<<>>, <<<<"checked_in_by", One("Person", "8")>>>>}
EventTimesRels ==
    {<<>>, <<<<"event_times", Many("EventTime", <<"12">>)>>>>,
     <<<<"event_times", Many("EventTime", <<"34", "12", "12">>)>>>>}

CheckIn(id, type, rels) ==
    [isdict |-> TRUE, id |-> id, type |-> type,
     attributes |-> <<<<"kind", "Regular">>>>, relationships |-> rels]

\* the shapes a data item can have; "?" stands for the id of its position
ItemShapes ==
    {CheckIn("?", "CheckIn", p \o c \o e) :
        p \in PersonRels, c \in CheckedInByRels, e \in EventTimesRels}
    \cup {CheckIn("?", "CheckIn", <<<<"person", NullData>>>>),
          CheckIn("?", "CheckIn", <<<<"person", [kind |-> "nodata"]>>>>),
          CheckIn("?", "CheckIn", <<<<"event_times", Many("EventTime", <<>>)>>>>),
          CheckIn(Null, "CheckIn", <<>>),
          CheckIn("?", "", <<>>),
          [isdict |-> FALSE, id |-> Null, type |-> "",
           attributes |-> <<>>, relationships |-> <<>>]}

PlaceIds(shapes) ==
    [i \in DOMAIN shapes |->
        IF shapes[i].id = "?" THEN [shapes[i] EXCEPT !.id = ToString(i)]
        ELSE shapes[i]]

Included(id, type, attrs) == [id |-> id, type |-> type, attributes |-> attrs]

IncludedLists ==
    {<<>>,
     <<Included("7", "Person", <<<<"name", "Ann">>>>)>>,
     <<Included("7", "Person", <<<<"name", "Ann">>>>),
       Included("8", "Person", <<<<"name", "Bob">>>>),
       Included("12", "EventTime", <<<<"starts_at", "09:00">>>>)>>}

ApiResponses(items) ==
    {[data |-> PlaceIds(shapes), included |-> inc] :
        shapes \in UNION {[1..n -> ItemShapes] : n \in 0..items},
        inc \in IncludedLists}

\* the _ids columns of a row
IdsColumns(row) ==
    {c \in DOMAIN row :
        Len(c) >= 4 /\ SubSeq(c, Len(c) - 3, Len(c)) = "_ids"}

Flatten ==
    /\ fpc = "ready"
    /\ processed_data' = process_jsonapi_response(api_response)
    /\ fpc' = "flattened"
    /\ UNCHANGED <<api_response, parsed_ids, pageVars, stepVars, runVars,
                   refVars, getVars>>

\* line 262: the column's values go through parse_event_time_ids
ParseIds ==
    /\ fpc = "flattened"
    /\ parsed_ids' =
          [i \in DOMAIN processed_data |->
              [c \in IdsColumns(processed_data[i]) |->
                  parse_event_time_ids(PyStr(processed_data[i][c]))]]
    /\ fpc' = "parsed"
    /\ UNCHANGED <<api_response, processed_data, pageVars, stepVars, runVars,
                   refVars, getVars>>

InitFlatten ==
    /\ api_response \in ApiResponses(MaxData)
    /\ fpc = "ready" /\ processed_data = <<>> /\ parsed_ids = <<>>
    /\ PagesIdle /\ StepIdle /\ RunIdle /\ RefreshIdle /\ GetIdle

NextFlatten == Flatten \/ ParseIds

SpecFlatten == InitFlatten /\ [][NextFlatten]_vars

(***************************************************************************)
(* What the page holds, read off the response itself.                      *)
(***************************************************************************)
\* the resource linkages of a relationship, in order
LinksOf(rel_data) ==
    IF rel_data.kind # "data" THEN <<>>
    ELSE IF rel_data.data.kind = "one" THEN <<rel_data.data.link>>
    ELSE IF rel_data.data.kind = "many" THEN rel_data.data.links
    ELSE <<>>

InIncluded(link) ==
    \E k \in DOMAIN api_response.included :
       /\ api_response.included[k].id = link.id
       /\ api_response.included[k].type = link.type

TargetOf(link) ==
    api_response.included[CHOOSE k \in DOMAIN api_response.included :
                              /\ api_response.included[k].id = link.id
                              /\ api_response.included[k].type = link.type]

\* relationship p of the item is single-valued and its target is included
SingleWithTarget(item, p) ==
    /\ item.relationships[p][2].kind = "data"
    /\ item.relationships[p][2].data.kind = "one"
    /\ InIncluded(item.relationships[p][2].data.link)

HasColumn(row, col, value) == col \in DOMAIN row /\ row[col] = value

\* every item of a non-empty page is a dict with a single-valued
\* relationship whose target is included, and the page has been flattened
C15_Case ==
    /\ fpc # "ready" /\ api_response.data # <<>>
    /\ \A i \in DOMAIN api_response.data :
          /\ api_response.data[i].isdict
          /\ \E p \in DOMAIN api_response.data[i].relationships :
                SingleWithTarget(api_response.data[i], p)

(***************************************************************************)
(* C15 as stated: for a page of N items each carrying a single-valued      *)
(* relationship whose target is in included, the flattener returns N rows  *)
(* in item order, each with {relation}_id set to the linked id and every   *)
(* attribute of the included resource inlined as {includedType}_{attr}.    *)
(***************************************************************************)
C15_Original ==
    C15_Case
       => /\ Len(processed_data) = Len(api_response.data)
          /\ \A i \in DOMAIN api_response.data :
               LET item == api_response.data[i]
                   row == processed_data[i]
               IN /\ HasColumn(row, item.type \o "_id", item.id)
                  /\ \A p \in DOMAIN item.relationships :
                       SingleWithTarget(item, p)
                          => LET link == item.relationships[p][2].data.link
                                 attrs == TargetOf(link).attributes
                             IN /\ HasColumn(row, item.relationships[p][1] \o "_id",
                                             link.id)
                                /\ \A a \in DOMAIN attrs :
                                     HasColumn(row, link.type \o "_" \o attrs[a][1],
                                               attrs[a][2])

(***************************************************************************)
(* C15 amended: ... the flattener returns N rows in item order, each with  *)
(* {relation}_id set to the linked id and the {includedType}_{attr}        *)
(* columns populated; they hold the attributes of the relationship's       *)
(* included resource unless a later relationship of the same item links an *)
(* included resource of the same type, whose attributes then replace them. *)
(***************************************************************************)
\* the included links of relationship q that have the type
IncludedLinks(item, q, type) ==
    SelectSeq(LinksOf(item.relationships[q][2]),
              LAMBDA l : l.type = type /\ l.id # Null /\ InIncluded(l))

\* the last relationship of the item that links an included resource of the type
LastLinking(item, type) ==
    CHOOSE q \in DOMAIN item.relationships :
       /\ IncludedLinks(item, q, type) # <<>>
       /\ \A r \in DOMAIN item.relationships :
             IncludedLinks(item, r, type) # <<>> => r <= q

C15_Amended ==
    C15_Case
       => /\ Len(processed_data) = Len(api_response.data)
          /\ \A i \in DOMAIN api_response.data :
               LET item == api_response.data[i]
                   row == processed_data[i]
               IN /\ HasColumn(row, item.type \o "_id", item.id)
                  /\ \A p \in DOMAIN item.relationships :
                       SingleWithTarget(item, p)
                          => LET link == item.relationships[p][2].data.link
                                 last == IncludedLinks(item,
                                            LastLinking(item, link.type),
                                            link.type)
                                 attrs == TargetOf(last[Len(last)]).attributes
                             IN /\ HasColumn(row, item.relationships[p][1] \o "_id",
                                             link.id)
                                /\ \A a \in DOMAIN attrs :
                                     HasColumn(row, link.type \o "_" \o attrs[a][1],
                                               attrs[a][2])
                                /\ LastLinking(item, link.type) = p
                                      => last = <<link>>

\* two check-ins, each linked to its own included person: two rows in order,
\* each with person_id and the person's name
C15_Witness ==
    /\ C15_Case /\ Len(processed_data) = 2
    /\ HasColumn(processed_data[1], "CheckIn_id", "1")
    /\ HasColumn(processed_data[1], "person_id", "7")
    /\ HasColumn(processed_data[1], "Person_name", "Ann")
    /\ HasColumn(processed_data[2], "CheckIn_id", "2")
    /\ HasColumn(processed_data[2], "person_id", "8")
    /\ HasColumn(processed_data[2], "Person_name", "Bob")

(***************************************************************************)
(* C16: for every item with a relationship holding k >= 1 ids, the row has *)
(* {relation}_ids, an encoding of exactly those ids in their order which   *)
(* parse_event_time_ids decodes to the same list; the column is there for  *)
(* k = 1 too, next to {relation}_id.                                       *)
(***************************************************************************)
\* the ids a relationship links, in order
RECURSIVE IdsOf(_)
IdsOf(links) ==
    IF links = <<>> THEN <<>>
    ELSE (IF Head(links).id = Null THEN <<>> ELSE <<Head(links).id>>)
             \o IdsOf(Tail(links))

\* the page was flattened item by item
RowPerItem ==
    /\ fpc # "ready"
    /\ \A i \in DOMAIN api_response.data : api_response.data[i].isdict

C16_IdsRoundTrip ==
    RowPerItem
       => /\ Len(processed_data) = Len(api_response.data)
          /\ \A i \in DOMAIN api_response.data :
               \A p \in DOMAIN api_response.data[i].relationships :
                  LET rel == api_response.data[i].relationships[p]
                      ids == IdsOf(LinksOf(rel[2]))
                      row == processed_data[i]
                  IN ids # <<>>
                        => /\ rel[1] \o "_ids" \in DOMAIN row
                           /\ Len(ids) = 1 => HasColumn(row, rel[1] \o "_id", ids[1])
                           /\ fpc = "parsed"
                                 => parsed_ids[i][rel[1] \o "_ids"]
                                       = [j \in DOMAIN ids |-> PyStr(ids[j])]

\* a check-in with three event-time links and one person link: both _ids
\* columns are there and decode to the linked ids, in order
C16_Witness ==
    /\ fpc = "parsed" /\ Len(processed_data) >= 1
    /\ HasColumn(processed_data[1], "event_times_ids", "[\"34\", \"12\", \"12\"]")
    /\ HasColumn(processed_data[1], "person_ids", "[\"7\"]")
    /\ HasColumn(processed_data[1], "person_id", "7")
    /\ parsed_ids[1]["event_times_ids"] = <<PyStr("34"), PyStr("12"), PyStr("12")>>
    /\ parsed_ids[1]["person_ids"] = <<PyStr("7")>>

(***************************************************************************)
(* C17 as stated: items that lack a type or an id are skipped and the page *)
(* is not aborted: the rows returned are exactly those of the well-formed  *)
(* items, so every row carries {type}_id holding a non-null id.            *)
(***************************************************************************)
WellFormed(item) == item.isdict /\ item.id # Null /\ item.type # ""

WellFormedItems == SelectSeq(api_response.data, WellFormed)

C17_Original ==
    fpc # "ready"
       => /\ Len(processed_data) = Len(WellFormedItems)
          /\ \A i \in DOMAIN processed_data :
               /\ i <= Len(WellFormedItems)
               /\ WellFormedItems[i].type \o "_id" \in DOMAIN processed_data[i]
               /\ processed_data[i][WellFormedItems[i].type \o "_id"]
                     = WellFormedItems[i].id

(***************************************************************************)
(* _explode_checkins on the event-time ids column of PC_CHECKINS.  A cell  *)
(* of the column records the value pandas holds and, next to it, the form  *)
(* it was written in and the ids it was written from.                      *)
(***************************************************************************)
MaxRows == 2        \* check-in rows of the table

\* repr() of a list of str: ['12', '34']
RECURSIVE ReprJoin(_, _)
ReprJoin(l, i) ==
    IF i > Len(l) THEN ""
    ELSE (IF i > 1 THEN ", " ELSE "") \o "'" \o l[i] \o "'" \o ReprJoin(l, i + 1)

Repr(l) == "[" \o ReprJoin(l, 1) \o "]"

IdLists == {<<>>, <<"12">>, <<"12", "34">>, <<"0", "12">>, <<"34", "34">>}

ScalarIds == {"56", "0", "007"}

Cell(form, ids, value) == [form |-> form, ids |-> ids, val |-> value]

ListCells ==
    {Cell("native list", l, PyList([j \in DOMAIN l |-> PyStr(l[j])])) : l \in IdLists}
       \cup {Cell("json list", l, PyStr(json_dumps(l))) : l \in IdLists}
       \cup {Cell("literal list", l, PyStr(Repr(l))) : l \in IdLists}

ScalarCells ==
    {Cell("scalar", <<s>>, PyStr(s)) : s \in ScalarIds}
       \cup {Cell("scalar", <<s>>, PyStr(" " \o s \o " ")) : s \in ScalarIds}
       \cup {Cell("scalar", <<s>>, PyInt(ToInt(s, Len(s)))) : s \in ScalarIds}

EmptyCells ==
    {Cell("empty", <<>>, v) : v \in {PyStr(""), PyStr("  "), PyNone, PyNaN}}

Cells == ListCells \cup ScalarCells \cup EmptyCells

IdsColumnValues(rows) == UNION {[1..n -> Cells] : n \in 1..rows}

\* DataFrame.explode: one row per element of the cell's list, and one row
\* holding NaN for an empty list
RECURSIVE ExplodeRows(_, _)
ExplodeRows(parsed, i) ==
    IF i > Len(parsed) THEN <<>>
    ELSE (IF parsed[i] = <<>> THEN <<[row |-> i, id |-> PyNaN]>>
          ELSE [j \in DOMAIN parsed[i] |-> [row |-> i, id |-> parsed[i][j]]])
            \o ExplodeRows(parsed, i + 1)

\* Series.notna()
NotNa(r) == r.id.t \notin {"none", "nan"}

\* df[col] != ''
NotEmptyString(r) == r.id # PyStr("")

\* lines 262-271
ExplodeByIds ==
    /\ xpc = "ready"
    /\ LET parsed == [i \in DOMAIN ids_column |->
                         parse_event_time_ids(ids_column[i].val)]
       IN df_exploded' =
             SelectSeq(SelectSeq(ExplodeRows(parsed, 1), NotNa), NotEmptyString)
    /\ xpc' = "exploded"
    /\ UNCHANGED <<ids_column, joinVars, dtypeVars, tzVars, pageVars, flatVars, runVars,
                   refVars, getVars>>

InitExplode ==
    /\ ids_column \in IdsColumnValues(MaxRows)
    /\ xpc = "ready" /\ df_exploded = <<>>
    /\ JoinIdle /\ DtypeIdle /\ TzIdle /\ PagesIdle /\ FlattenIdle
    /\ RunIdle /\ RefreshIdle /\ GetIdle

NextExplode == ExplodeByIds

SpecExplode == InitExplode /\ [][NextExplode]_vars

\* the output rows that came from source row i
RowsOf(i) == SelectSeq(df_exploded, LAMBDA r : r.row = i)

\* the number of linked ids the cell of a source row holds
Held(cell) ==
    CASE cell.form \in {"native list", "json list", "literal list"} -> Len(cell.ids)
      [] cell.form = "scalar" -> 1
      [] cell.form = "empty" -> 0

ScalarId(v) == v.t \in {"str", "int"} /\ v # PyStr("")

(***************************************************************************)
(* C18 as stated: every source row gives as many output rows as its value  *)
(* holds linked ids (a list in any of its three forms gives its length, a  *)
(* bare scalar gives 1, empty or null gives 0), and every output row       *)
(* carries one scalar link id that is neither null nor empty.              *)
(***************************************************************************)
C18_Original ==
    xpc = "exploded"
       => /\ \A i \in DOMAIN ids_column : Len(RowsOf(i)) = Held(ids_column[i])
          /\ \A k \in DOMAIN df_exploded : ScalarId(df_exploded[k].id)

(***************************************************************************)
(* The merges of _enrich_event_times and _enrich_checkins.  A table is a   *)
(* non-empty sequence of rows, every row a function from the column names  *)
(* of the table to Python values.                                          *)
(***************************************************************************)
MaxFacts == 2       \* rows of the fact table

Columns(df) == DOMAIN df[1]

\* df[cols]
Subset(df, cols) == [i \in DOMAIN df |-> [c \in cols |-> df[i][c]]]

\* df.rename(columns={old: new})
RenameColumn(df, old, new) ==
    [i \in DOMAIN df |->
        [c \in (Columns(df) \ {old}) \cup {new} |->
            IF c = new THEN df[i][old] ELSE df[i][c]]]

\* str(value), as Series.astype(str) applies it to every value
StrOf(v) ==
    CASE v.t = "str" -> v
      [] v.t = "int" -> PyStr(ToString(v.v))
      [] v.t = "none" -> PyStr("None")
      [] v.t = "nan" -> PyStr("nan")

\* df[col] = df[col].astype(str)
AsTypeStr(df, col) == [i \in DOMAIN df |-> [df[i] EXCEPT ![col] = StrOf(@)]]

\* the dtype pandas gives a column of ids
Dtype(df, col) ==
    IF \A i \in DOMAIN df : df[i][col].t = "int" THEN "int64" ELSE "object"

IsNull(v) == v.t \in {"none", "nan"}

\* equality of two merge keys: nulls match nulls, a number never equals text
KeyEq(a, b) ==
    \/ IsNull(a) /\ IsNull(b)
    \/ a.t = b.t /\ a = b

\* merge refuses an integer key column against a column holding text
MergeRaises(left, right, left_on, right_on) ==
    \/ /\ Dtype(left, left_on) = "int64"
       /\ \E i \in DOMAIN right : right[i][right_on].t = "str"
    \/ /\ Dtype(right, right_on) = "int64"
       /\ \E i \in DOMAIN left : left[i][left_on].t = "str"

\* the rows a left row gives: one per matching right row, in the order of
\* right, or one with NaN in the columns of right when nothing matches
MergedRows(l, right, left_on, right_on) ==
    LET matching == SelectSeq(right, LAMBDA r : KeyEq(l[left_on], r[right_on]))
        added == Columns(right) \ DOMAIN l
        Joined(r) == [c \in DOMAIN l \cup added |->
                         IF c \in DOMAIN l THEN l[c] ELSE r[c]]
        Missing == [c \in DOMAIN l \cup added |->
                       IF c \in DOMAIN l THEN l[c] ELSE PyNaN]
    IN IF matching = <<>> THEN <<Missing>>
       ELSE [k \in DOMAIN matching |-> Joined(matching[k])]

RECURSIVE MergeFrom(_, _, _, _, _)
MergeFrom(left, right, left_on, right_on, i) ==
    IF i > Len(left) THEN <<>>
    ELSE MergedRows(left[i], right, left_on, right_on)
            \o MergeFrom(left, right, left_on, right_on, i + 1)

\* what a handler leaves: the table, or that the merge raised
Enriched(df) == [ok |-> TRUE, df |-> df]

MergeRaised == [ok |-> FALSE, df |-> <<>>]

\* left.merge(right, left_on=..., right_on=..., how='left'); the columns of
\* right other than its key are absent from left in every call the code makes
merge(left, right, left_on, right_on) ==
    IF MergeRaises(left, right, left_on, right_on) THEN MergeRaised
    ELSE Enriched(MergeFrom(left, right, left_on, right_on, 1))

\* df.drop(columns=[col])
Drop(df, col) == Subset(df, Columns(df) \ {col})

\* the columns a handler takes from the dimension table: <<name there, name
\* in the fact table>>, kept when the first exists and the second does not
RECURSIVE MergeCols(_, _, _)
MergeCols(wanted, dim, fact) ==
    IF wanted = <<>> THEN <<>>
    ELSE (IF Head(wanted)[1] \in Columns(dim) /\ Head(wanted)[2] \notin Columns(fact)
          THEN <<Head(wanted)>> ELSE <<>>)
            \o MergeCols(Tail(wanted), dim, fact)

RECURSIVE RenameAll(_, _)
RenameAll(df, cols) ==
    IF cols = <<>> THEN df
    ELSE RenameAll(RenameColumn(df, Head(cols)[1], Head(cols)[2]), Tail(cols))

Sources(cols) == {cols[k][1] : k \in DOMAIN cols}

EventsWanted == <<<<"name", "event_name">>, <<"frequency", "event_frequency">>>>

\* _enrich_event_times, lines 293-343
enrich_event_times(event_times_df, events_df) ==
    LET event_id_col == FirstMatch(<<"event_id", "events_id", "event_ids">>,
                                   Columns(event_times_df))
        events_id_col == FirstMatch(<<"event_id", "events_id", "id">>,
                                    Columns(events_df))
        cols == MergeCols(EventsWanted, events_df, event_times_df)
        events_subset ==
            RenameColumn(
                RenameAll(Subset(events_df, {events_id_col} \cup Sources(cols)), cols),
                events_id_col, event_id_col)
    IN IF event_id_col = Null \/ events_id_col = Null \/ cols = <<>>
       THEN Enriched(event_times_df)
       ELSE merge(event_times_df, events_subset, event_id_col, event_id_col)

EventTimesWanted ==
    <<<<"starts_at", "event_starts_at">>, <<"event_name", "event_name">>,
      <<"event_frequency", "event_frequency">>>>

PeopleWanted == <<<<"gender", "person_gender">>, <<"birthdate", "person_birthdate">>>>

\* one of the two merges of _enrich_checkins: lines 360-413 and 415-467
CheckinsMerge(checkins_df, dim_df, fact_cands, dim_cands, wanted) ==
    LET fact_col == FirstMatch(fact_cands, Columns(checkins_df))
        dim_col == FirstMatch(dim_cands, Columns(dim_df))
        cols == MergeCols(wanted, dim_df, checkins_df)
        subset == AsTypeStr(
                      RenameAll(Subset(dim_df, {dim_col} \cup Sources(cols)), cols),
                      dim_col)
        merged == merge(AsTypeStr(checkins_df, fact_col), subset, fact_col, dim_col)
    IN IF fact_col = Null \/ dim_col = Null \/ cols = <<>>
       THEN Enriched(checkins_df)
       ELSE IF ~merged.ok THEN MergeRaised
       ELSE IF dim_col # fact_col /\ dim_col \in Columns(merged.df)
            THEN Enriched(Drop(merged.df, dim_col))
       ELSE merged

\* _enrich_checkins, lines 356-469
enrich_checkins(checkins_df, event_times_df, people_df) ==
    LET first == CheckinsMerge(checkins_df, event_times_df,
                               <<"event_time_ids", "EventTime_ids", "event_times_ids">>,
                               <<"event_time_id", "event_times_id", "id">>,
                               EventTimesWanted)
    IN IF ~first.ok THEN MergeRaised
       ELSE CheckinsMerge(first.df, people_df,
                          <<"person_id", "people_id", "persons_id">>,
                          <<"people_id", "person_id", "id">>,
                          PeopleWanted)

\* ---- the tables the handlers are given
EventIds == {PyStr("5"), PyStr("6"), PyInt(5), PyNone}

LinkIds == {PyStr("5"), PyStr("6"), PyInt(5)}

PersonIds == {PyStr("5"), PyNone}

\* the ids of a dimension table, in row order: unique, of one type or of
\* both, or with one id twice
DimIds ==
    {<<PyStr("5")>>, <<PyStr("5"), PyStr("7")>>, <<PyInt(5), PyInt(7)>>,
     <<PyStr("7"), PyInt(5)>>, <<PyStr("5"), PyStr("5")>>}

Suffix(k) == ToString(k)

\* the fact table may hold one of the enrichment columns already
WithKept(row, kept) ==
    IF kept THEN Put(row, "event_name", PyStr("kept")) ELSE row

EventTimesFacts(rows) ==
    UNION {{[i \in 1..n |->
                WithKept([event_id |-> ids[i], starts_at |-> PyStr("t" \o Suffix(i))],
                         kept)] :
              ids \in [1..n -> EventIds], kept \in BOOLEAN} : n \in 1..rows}

EventsTables ==
    {[k \in DOMAIN ids |->
         [event_id |-> ids[k], name |-> PyStr("n" \o Suffix(k)),
          frequency |-> PyStr("f" \o Suffix(k))]] : ids \in DimIds}

CheckinsFacts(rows) ==
    UNION {{[i \in 1..n |->
                WithKept([event_times_ids |-> links[i], person_id |-> persons[i]],
                         kept)] :
              links \in [1..n -> LinkIds], persons \in [1..n -> PersonIds],
              kept \in BOOLEAN} : n \in 1..rows}

EventTimesTables ==
    {[k \in DOMAIN ids |->
         [event_time_id |-> ids[k], starts_at |-> PyStr("t" \o Suffix(k)),
          event_name |-> PyStr("n" \o Suffix(k)),
          event_frequency |-> PyStr("f" \o Suffix(k))]] : ids \in DimIds}

PeopleTables ==
    {[k \in DOMAIN ids |->
         [id |-> ids[k], gender |-> PyStr("g" \o Suffix(k)),
          birthdate |-> PyStr("b" \o Suffix(k))]] :
        ids \in {<<PyStr("5")>>, <<PyInt(5), PyInt(7)>>}}
       \cup {[k \in DOMAIN ids |->
                [person_id |-> ids[k], gender |-> PyStr("g" \o Suffix(k))]] :
               ids \in {<<PyStr("5"), PyStr("5")>>}}

Joins(rows) ==
    {[handler |-> "_enrich_event_times", fact |-> f, dims |-> <<d>>] :
        f \in EventTimesFacts(rows), d \in EventsTables}
       \cup {[handler |-> "_enrich_checkins", fact |-> f, dims |-> <<d, p>>] :
               f \in CheckinsFacts(rows), d \in EventTimesTables, p \in PeopleTables}

\* line 142
EnrichEventTimesTable ==
    /\ jpc = "ready" /\ join.handler = "_enrich_event_times"
    /\ enriched' = enrich_event_times(join.fact, join.dims[1])
    /\ jpc' = "enriched"
    /\ UNCHANGED <<join, explodeVars, dtypeVars, tzVars, pageVars, flatVars, runVars,
                   refVars, getVars>>

\* line 145
EnrichCheckinsTable ==
    /\ jpc = "ready" /\ join.handler = "_enrich_checkins"
    /\ enriched' = enrich_checkins(join.fact, join.dims[1], join.dims[2])
    /\ jpc' = "enriched"
    /\ UNCHANGED <<join, explodeVars, dtypeVars, tzVars, pageVars, flatVars, runVars,
                   refVars, getVars>>

InitJoin ==
    /\ join \in Joins(MaxFacts)
    /\ jpc = "ready" /\ enriched = <<>>
    /\ ExplodeIdle /\ DtypeIdle /\ TzIdle /\ PagesIdle /\ FlattenIdle
    /\ RunIdle /\ RefreshIdle /\ GetIdle

NextJoin == EnrichEventTimesTable \/ EnrichCheckinsTable

SpecJoin == InitJoin /\ [][NextJoin]_vars

\* ---- the joins of a handler, read off its tables
JoinOf(fact, dim, fact_cands, dim_cands, wanted) ==
    [dim |-> dim,
     left_on |-> FirstMatch(fact_cands, Columns(fact)),
     right_on |-> FirstMatch(dim_cands, Columns(dim)),
     cols |-> MergeCols(wanted, dim, fact)]

JoinsOf(j) ==
    IF j.handler = "_enrich_event_times"
    THEN <<JoinOf(j.fact, j.dims[1], <<"event_id", "events_id", "event_ids">>,
                  <<"event_id", "events_id", "id">>, EventsWanted)>>
    ELSE <<JoinOf(j.fact, j.dims[1],
                  <<"event_time_ids", "EventTime_ids", "event_times_ids">>,
                  <<"event_time_id", "event_times_id", "id">>, EventTimesWanted),
           JoinOf(j.fact, j.dims[2], <<"person_id", "people_id", "persons_id">>,
                  <<"people_id", "person_id", "id">>, PeopleWanted)>>

\* the ids of the dimension table are unique as text
UniqueIds(jn) ==
    \A a, b \in DOMAIN jn.dim :
       a # b => StrOf(jn.dim[a][jn.right_on]) # StrOf(jn.dim[b][jn.right_on])

\* the rows of the dimension table whose id is, as text, the id of the row
TextMatches(row, jn) ==
    SelectSeq(jn.dim, LAMBDA d : StrOf(d[jn.right_on]) = StrOf(row[jn.left_on]))

AddedColumns(jn) == {jn.cols[k][2] : k \in DOMAIN jn.cols}

(***************************************************************************)
(* C19 as stated: every enrichment join is a left join on the ids of both  *)
(* sides taken as text: every fact row is kept (the row count is unchanged *)
(* when the dimension ids are unique), the added columns hold the values   *)
(* of the dimension row with the same id text, or null when there is none, *)
(* and the columns the fact table already had are neither added again nor  *)
(* overwritten.                                                            *)
(***************************************************************************)
C19_Original ==
    jpc = "enriched"
       => LET joins == JoinsOf(join)
              fact == join.fact
          IN /\ enriched.ok
             /\ Len(enriched.df) >= Len(fact)
             /\ (\A n \in DOMAIN joins : UniqueIds(joins[n]))
                   => /\ Len(enriched.df) = Len(fact)
                      /\ \A i \in DOMAIN fact :
                           LET row == enriched.df[i]
                           IN /\ DOMAIN row = Columns(fact) \cup
                                    UNION {AddedColumns(joins[n]) : n \in DOMAIN joins}
                              /\ \A c \in Columns(fact) :
                                    StrOf(row[c]) = StrOf(fact[i][c])
                              /\ \A n \in DOMAIN joins :
                                   LET jn == joins[n]
                                       found == TextMatches(fact[i], jn)
                                   IN \A k \in DOMAIN jn.cols :
                                         row[jn.cols[k][2]] =
                                            IF found = <<>> THEN PyNaN
                                            ELSE found[1][jn.cols[k][1]]

(***************************************************************************)
(* generate_dtype_mapping on one column: its name, the dtype pandas gave   *)
(* it, and str(v) of the non-null values the function samples.             *)
(***************************************************************************)
ShortText == 255

EndsWith(s, suffix) ==
    /\ Len(s) >= Len(suffix)
    /\ SubSeq(s, Len(s) - Len(suffix) + 1, Len(s)) = suffix

StartsWith(s, prefix) ==
    Len(s) >= Len(prefix) /\ SubSeq(s, 1, Len(prefix)) = prefix

\* sub in s
Contains(s, sub) ==
    \E i \in 1..(Len(s) - Len(sub) + 1) : SubSeq(s, i, i + Len(sub) - 1) = sub

UpperCase == "ABCDEFGHIJKLMNOPQRSTUVWXYZ"

LowerCase == "abcdefghijklmnopqrstuvwxyz"

LowerChar(c) ==
    LET ks == {k \in 1..Len(UpperCase) : Char(UpperCase, k) = c}
    IN IF ks = {} THEN c ELSE Char(LowerCase, CHOOSE k \in ks : TRUE)

\* the characters i..j of s in lower case, by halves
RECURSIVE LowerRange(_, _, _)
LowerRange(s, i, j) ==
    IF i > j THEN ""
    ELSE IF i = j THEN LowerChar(Char(s, i))
    ELSE LowerRange(s, i, (i + j) \div 2) \o LowerRange(s, (i + j) \div 2 + 1, j)

\* str.lower()
Lower(s) == LowerRange(s, 1, Len(s))

ContainsAny(s, subs) == \E x \in subs : Contains(s, x)

BooleanNames == {"is_", "has_", "can_", "primary", "blocked", "verified", "opened"}

BooleanWords == {"true", "false", "1", "0", "yes", "no", "t", "f", "y", "n", ""}

NumericNames == {"count", "total", "min", "max", "grade", "year"}

\* sample.astype(str).str.len().max()
RECURSIVE MaxLenOf(_)
MaxLenOf(sample) ==
    IF sample = <<>> THEN 0
    ELSE LET rest == MaxLenOf(Tail(sample))
         IN IF Len(Head(sample)) > rest THEN Len(Head(sample)) ELSE rest

\* set(str(v).lower().strip() for v in sample.unique())
UniqueVals(sample) == {Strip(Lower(sample[k])) : k \in DOMAIN sample}

\* lines 354-368
BooleanColumn(dtype, sample) ==
    IF dtype # "object" THEN "Boolean"
    ELSE IF sample = <<>> THEN "Boolean"
    ELSE IF UniqueVals(sample) \subseteq BooleanWords
            /\ Cardinality(UniqueVals(sample)) <= 3
         THEN "Boolean"
    ELSE IF MaxLenOf(sample) > ShortText THEN "Text" ELSE "String(255)"

\* lines 386-397
ObjectColumn(col_lower, sample) ==
    IF sample = <<>> THEN "String(255)"
    ELSE IF StartsWith(sample[1], "[") \/ StartsWith(sample[1], "{") THEN "Text"
    ELSE IF \/ Contains(col_lower, "notes") \/ Contains(col_lower, "description")
            \/ Len(sample[1]) > ShortText
         THEN "Text"
    ELSE "String(255)"

\* lines 400-407
NativeType(dtype) ==
    IF dtype = "bool" THEN "Boolean"
    ELSE IF dtype \in {"int64", "Int64"} THEN "Integer"
    ELSE IF dtype \in {"float64", "Float64"} THEN "Float"
    ELSE "String(255)"

\* the body of the loop of generate_dtype_mapping, lines 346-408
generate_dtype_mapping(col, dtype, sample) ==
    LET col_lower == Lower(col)
    IN IF EndsWith(col, "_id") \/ EndsWith(col, "_ids")
       THEN (IF EndsWith(col, "_ids") THEN "Text" ELSE "Integer")
       ELSE IF ContainsAny(col_lower, BooleanNames)
            THEN BooleanColumn(dtype, sample)
       ELSE IF Contains(col_lower, "date") \/ EndsWith(col, "_at")
            THEN (IF Contains(col_lower, "date") /\ ~Contains(col_lower, "time")
                  THEN "Date" ELSE "DateTime(timezone=True)")
       ELSE IF ContainsAny(col_lower, NumericNames)
            THEN (IF dtype \in {"int64", "Int64"} THEN "Integer"
                  ELSE IF dtype \in {"float64", "Float64"} THEN "Float"
                  ELSE "String(255)")
       ELSE IF dtype = "object" THEN ObjectColumn(col_lower, sample)
       ELSE NativeType(dtype)

\* ---- the columns
ColumnNames ==
    {"person_id", "event_times_ids", "is_primary_id", "birthdate_ids",
     "is_verified", "Primary", "verified_at", "has_notes", "blocked_count",
     "birthdate", "created_at", "date_time", "Updated_At", "notes_date",
     "headcount", "grade", "max_notes",
     "notes", "Description", "name"}

RECURSIVE Repeat(_, _)
Repeat(s, n) ==
    IF n = 0 THEN ""
    ELSE IF n = 1 THEN s
    ELSE LET half == Repeat(s, n \div 2)
         IN IF n % 2 = 0 THEN half \o half ELSE half \o half \o s

LongValue == Repeat("x", ShortText + 1)

\* the dtypes a column can have and, for each, samples of its values
SamplesOf(dtype) ==
    CASE dtype = "object" ->
            {<<>>, <<"true", "false">>, <<"True", " FALSE ", "1">>,
             <<"1", "0", "yes", "no">>, <<"yes", "maybe">>, <<"Bob">>,
             <<"[\"a\", \"b\"]">>, <<"{\"a\": 1}">>, <<LongValue>>,
             <<"short", LongValue>>}
      [] dtype = "bool" -> {<<"True", "False">>, <<"True">>}
      [] dtype \in {"int64", "Int64"} -> {<<"0", "1">>, <<"2", "5">>}
      [] dtype \in {"float64", "Float64"} -> {<<>>, <<"0.5">>, <<"1.0", "0.0">>}
      [] dtype = "datetime64[ns, UTC]" -> {<<"2024-01-07 09:00:00+00:00">>}

Dtypes ==
    {"object", "bool", "int64", "Int64", "float64", "Float64",
     "datetime64[ns, UTC]"}

GenerateDtypeMapping ==
    /\ dpc = "ready"
    /\ dtype_mapping' = generate_dtype_mapping(column.name, column.dtype,
                                                column.sample)
    /\ dpc' = "generated"
    /\ UNCHANGED <<column, explodeVars, joinVars, tzVars, pageVars, flatVars, runVars,
                   refVars, getVars>>

InitDtype ==
    /\ \E n \in ColumnNames, d \in Dtypes :
         \E s \in SamplesOf(d) : column = [name |-> n, dtype |-> d, sample |-> s]
    /\ dpc = "ready" /\ dtype_mapping = <<>>
    /\ ExplodeIdle /\ JoinIdle /\ TzIdle /\ PagesIdle /\ FlattenIdle
    /\ RunIdle /\ RefreshIdle /\ GetIdle

NextDtype == GenerateDtypeMapping

SpecDtype == InitDtype /\ [][NextDtype]_vars

\* the sampled values look boolean: a subset of the boolean words, at most
\* three distinct
BoolLike(sample) ==
    /\ UniqueVals(sample) \subseteq BooleanWords
    /\ Cardinality(UniqueVals(sample)) <= 3

\* the column holds serialized nested structures
Serialized(sample) ==
    sample # <<>> /\ (StartsWith(sample[1], "[") \/ StartsWith(sample[1], "{"))

\* the type the seven rules give, the first matching rule deciding
FirstMatchingRule(col) ==
    LET col_lower == Lower(col.name)
    IN CASE EndsWith(col.name, "_ids") -> "Text"
         [] EndsWith(col.name, "_id") -> "Integer"
         [] OTHER ->
            IF ContainsAny(col_lower, BooleanNames)
            THEN (IF col.dtype = "bool" \/ BoolLike(col.sample) THEN "Boolean"
                  ELSE IF MaxLenOf(col.sample) > ShortText THEN "Text"
                  ELSE "String(255)")
            ELSE IF Contains(col_lower, "date") \/ EndsWith(col.name, "_at")
                 THEN (IF Contains(col_lower, "date") /\ ~Contains(col_lower, "time")
                       THEN "Date" ELSE "DateTime(timezone=True)")
            ELSE IF ContainsAny(col_lower, NumericNames)
                 THEN (IF col.dtype \in {"int64", "Int64"} THEN "Integer"
                       ELSE IF col.dtype \in {"float64", "Float64"} THEN "Float"
                       ELSE "String(255)")
            ELSE IF Serialized(col.sample) THEN "Text"
            ELSE IF \/ Contains(col_lower, "notes")
                    \/ Contains(col_lower, "description")
                    \/ (col.sample # <<>> /\ Len(col.sample[1]) > ShortText)
                 THEN "Text"
            ELSE NativeType(col.dtype)

(***************************************************************************)
(* C20 as stated: generate_dtype_mapping gives a column the type of the    *)
(* first matching rule of the seven, in their order, for every combination *)
(* of column name, native type and sample.                                 *)
(***************************************************************************)
C20_Original ==
    dpc = "generated" => dtype_mapping = FirstMatchingRule(column)

(***************************************************************************)
(* convert_timestamps_to_timezone on one column.  A timestamp is its wall  *)
(* clock reading, in hours from midnight of 2024-01-07, and the zone the   *)
(* reading is in ("naive" when it has none); NaT is the missing timestamp. *)
(***************************************************************************)
Ts(wall, tz) == [t |-> "ts", wall |-> wall, tz |-> tz]

NaT == [t |-> "nat"]

Naive == "naive"

\* hours east of UTC (the dates of the model are in winter time)
UtcOffset(tz) ==
    CASE tz = "UTC" -> 0
      [] tz = "US/Central" -> 0 - 6
      [] tz = "US/Eastern" -> 0 - 5

\* Series.dt.tz_convert(target_tz), value by value
tz_convert(v, target_tz) ==
    IF v.t = "nat" THEN NaT
    ELSE Ts(v.wall - UtcOffset(v.tz) + UtcOffset(target_tz), target_tz)

\* Series.dt.tz_localize('UTC'), value by value
tz_localize_utc(v) == IF v.t = "nat" THEN NaT ELSE Ts(v.wall, "UTC")

\* pd.to_datetime(value, errors='coerce', utc=True) on the texts of the model
to_datetime(v) ==
    IF v.t # "str" THEN NaT
    ELSE CASE v.v = "2024-01-07T09:00:00Z" -> Ts(9, "UTC")
           [] v.v = "2024-01-07T09:00:00-06:00" -> Ts(15, "UTC")
           [] v.v = "2024-01-07 21:00:00" -> Ts(21, "UTC")
           [] v.v = "2024-01-07" -> Ts(0, "UTC")
           [] OTHER -> NaT

\* a column: its dtype, the zone of a datetime column, and its values
DatetimeColumn(tz, values) == [dtype |-> "datetime64", tz |-> tz, values |-> values]

ObjectValues(values) == [dtype |-> "object", tz |-> Null, values |-> values]

\* df[col].isna().all()
AllNa(col) == \A k \in DOMAIN col.values : col.values[k].t \in {"none", "nan", "nat"}

\* df[col].dropna()
DropNa(values) == SelectSeq(values, LAMBDA v : v.t \notin {"none", "nan", "nat"})

\* df[col].dt.tz is not None, taken as never true
IsAwareNever(col) == FALSE

\* df[col].dt.tz is not None
IsAware(col) == col.tz # Naive

\* str.count(c) for a single character
CountOf(s, c) == Cardinality({i \in 1..Len(s) : Char(s, i) = c})

\* lines 164-167: the test of one sampled text
LooksLikeTimestamp(s) ==
    \/ Contains(s, "T")
    \/ Contains(s, ":") /\ Len(s) > 15
    \/ EndsWith(s, "Z")
    \/ CountOf(s, "-") >= 2 /\ Contains(s, ":")

\* lines 176-180: the test of one sampled value
HasTimeInfo(s) ==
    \/ Contains(s, "T") \/ Contains(s, ":") \/ EndsWith(s, "Z")
    \/ Len(s) > 15
    \/ Contains(s, "-") /\ CountOf(s, ":") >= 2

\* lines 155-186: an object column becomes a datetime column in the target
\* zone when its sample looks like timestamps and enough of it parses
ObjectColumnConverted(col, target_tz) ==
    LET sample == DropNa(col.values)
        parsed == [k \in DOMAIN sample |-> to_datetime(sample[k])]
        parsed_full == [k \in DOMAIN col.values |-> to_datetime(col.values[k])]
    IN IF /\ sample # <<>>
          /\ \E k \in DOMAIN sample : LooksLikeTimestamp(sample[k].v)
          /\ 10 * Len(DropNa(parsed)) >= 7 * Len(sample)
          /\ \E k \in DOMAIN sample : HasTimeInfo(sample[k].v)
          /\ DropNa(parsed_full) # <<>>
       THEN DatetimeColumn(target_tz,
                [k \in DOMAIN parsed_full |-> tz_convert(parsed_full[k], target_tz)])
       ELSE col

\* the body of the loop over the columns, lines 144-190
convert_timestamps_to_timezone(col, target_tz) ==
    IF AllNa(col) THEN col
    ELSE IF col.dtype = "datetime64"
         THEN IF IsAware(col)
              THEN DatetimeColumn(target_tz,
                       [k \in DOMAIN col.values |->
                           tz_convert(col.values[k], target_tz)])
              ELSE DatetimeColumn(target_tz,
                       [k \in DOMAIN col.values |->
                           tz_convert(tz_localize_utc(col.values[k]), target_tz)])
    ELSE IF col.dtype = "object" THEN ObjectColumnConverted(col, target_tz)
    ELSE col

\* ---- the columns
Zones == {"UTC", "US/Central", "US/Eastern"}

Walls == {0, 9, 21}

DatetimeColumns ==
    {DatetimeColumn(tz, [k \in DOMAIN w |-> IF w[k] = NoValue THEN NaT ELSE Ts(w[k], tz)]) :
        tz \in Zones \cup {Naive},
        w \in [1..1 -> Walls \cup {NoValue}] \cup [1..2 -> Walls \cup {NoValue}]}

ObjectColumns ==
    {ObjectValues([k \in DOMAIN texts |->
                      IF texts[k] = Null THEN PyNone ELSE PyStr(texts[k])]) :
        texts \in
          {<<"2024-01-07T09:00:00Z">>,
           <<"2024-01-07T09:00:00-06:00", Null, "2024-01-07 21:00:00">>,
           <<"2024-01-07T09:00:00Z", "Trinity">>,
           <<"2024-01-07T09:00:00Z", "2024-01-07 21:00:00",
             "2024-01-07T09:00:00-06:00", "Trinity">>,
           <<"2024-01-07">>, <<"Trinity", "Bob">>, <<"Bob">>, <<Null>>,
           <<"10:30", "2024-01-07 21:00:00">>}}

NumberColumns == {[dtype |-> "int64", tz |-> Null, values |-> <<PyInt(9)>>]}

TimestampColumns == DatetimeColumns \cup ObjectColumns \cup NumberColumns

\* the column the function is applied to: the table at first, its own
\* output afterwards
ConvertTimestamps ==
    /\ tpc \in {"ready", "once"}
    /\ converted' =
          Append(converted,
                 convert_timestamps_to_timezone(
                     IF converted = <<>> THEN ts_column.col
                     ELSE converted[Len(converted)],
                     ts_column.target_timezone))
    /\ tpc' = IF tpc = "ready" THEN "once" ELSE "twice"
    /\ UNCHANGED <<ts_column, explodeVars, joinVars, dtypeVars, pageVars,
                   flatVars, runVars, refVars, getVars>>

InitTz ==
    /\ ts_column \in [col : TimestampColumns, target_timezone : Zones]
    /\ tpc = "ready" /\ converted = <<>>
    /\ ExplodeIdle /\ JoinIdle /\ DtypeIdle /\ PagesIdle /\ FlattenIdle
    /\ RunIdle /\ RefreshIdle /\ GetIdle

NextTz == ConvertTimestamps

SpecTz == InitTz /\ [][NextTz]_vars

(***************************************************************************)
(* C21: timezone normalization is idempotent: applied a second time with   *)
(* the same target zone to its own output, convert_timestamps_to_timezone  *)
(* leaves every value of the column as the first application left it.      *)
(***************************************************************************)
C21_Idempotent == tpc = "twice" => converted[2] = converted[1]

\* a column of texts, one of them not a timestamp, was turned into
\* US/Central timestamps by the first application and left so by the second
C21_Witness ==
    /\ tpc = "twice"
    /\ ts_column.col.dtype = "object" /\ Len(ts_column.col.values) = 4
    /\ ts_column.target_timezone = "US/Central"
    /\ converted[1] = DatetimeColumn("US/Central",
                          <<Ts(3, "US/Central"), Ts(15, "US/Central"),
                            Ts(9, "US/Central"), NaT>>)
    /\ converted[2] = converted[1]

(***************************************************************************)
(* C22: the resources are fetched one after another in catalog order       *)
(* (people, check-ins, events, event_times); explode starts only after all *)
(* four fetches, event_times enrichment runs before check-ins enrichment,  *)
(* and no destination table is dropped or written before both             *)
(* enrichments have finished.                                              *)
(***************************************************************************)
\* the positions of the log holding the start of a stage
StageAt(stage) == {i \in LogOps({"stage"}) : log[i].arg = stage}

\* the fetches logged before position i
FetchesBefore(i) == {k \in LogOps({"fetch"}) : k < i}

C22_StagesInOrder ==
    /\ \A i \in LogOps({"fetch"}) :
          log[i].arg = DASHBOARD_ENDPOINTS[Cardinality(FetchesBefore(i)) + 1].name
    /\ \A i \in StageAt("explode") :
          Cardinality(FetchesBefore(i)) = Len(DASHBOARD_ENDPOINTS)
    /\ \A i \in StageAt("enrich_event_times") : \E j \in StageAt("explode") : j < i
    /\ \A i \in StageAt("enrich_checkins") :
          \E j \in StageAt("enrich_event_times") : j < i
    /\ \A i \in LogOps({"drop", "write", "create_schema"}) :
          /\ \E j \in StageAt("enrich_checkins") : j < i
          /\ raisedIn \notin {"explode", "enrich_event_times", "enrich_checkins"}

\* a run that fetched the four resources, went through explode and both
\* enrichments and replaced the four destination tables
C22_Witness ==
    /\ pc = "returned_true"
    /\ FetchesDone = Len(DASHBOARD_ENDPOINTS)
    /\ Cardinality(LogOps({"write"})) = Len(DASHBOARD_ENDPOINTS)
    /\ StageAt("explode") # {} /\ StageAt("enrich_checkins") # {}

(***************************************************************************)
(* The page loop of _fetch_endpoint (lines 190-232), request by request,   *)
(* next to the loop of get_all_pages.  A response of this loop also says   *)
(* whether process_jsonapi_response flattens it or meets an exception and  *)
(* returns [].                                                             *)
(***************************************************************************)
FetchPageSize == 100    \* per_page = 100 of _fetch_endpoint

FetchAnswers ==
    {[raises |-> TRUE, n |-> 0, next |-> Absent, flattens |-> TRUE]}
        \cup [raises : {FALSE}, n : {0}, next : {Absent, "https://next"},
              flattens : {TRUE}]
        \cup [raises : {FALSE}, n : 1..MaxItems, next : {Absent, "https://next"},
              flattens : BOOLEAN]

FetchUpstreams(served) ==
    {[k \in DOMAIN a |-> [raises |-> a[k].raises, data |-> Items(k, a[k].n),
                          next |-> a[k].next, flattens |-> a[k].flattens]] :
        a \in UNION {[1..n -> FetchAnswers] : n \in 1..served}}

\* self.client.get for the k-th request of _fetch_endpoint
FetchServed(k) ==
    IF k <= Len(upstream) THEN upstream[k]
    ELSE [raises |-> FALSE, data |-> <<>>, next |-> Absent, flattens |-> TRUE]

\* process_jsonapi_response(response, endpoint): a row per data item, or []
\* when it caught an exception (data_processor.py lines 123-125)
Processed(response) == IF response.flattens THEN response.data ELSE <<>>

\* the except clause of _fetch_endpoint keeping what was accumulated
FetchFailedKeepsRows(all_data) ==
    [table |-> all_data, returned |-> Len(all_data), caught |-> TRUE]

\* lines 230-232: the exception is logged and 0 is returned
FetchFailed(all_data) == [table |-> Absent, returned |-> 0, caught |-> TRUE]

\* lines 212-228: the table is stored when there are rows
FetchFinished(all_data) ==
    IF all_data # <<>>
    THEN [table |-> all_data, returned |-> Len(all_data), caught |-> FALSE]
    ELSE [table |-> Absent, returned |-> 0, caught |-> FALSE]

\* a page without rows going on to the next page when it has a links.next
EndsOnNoRowsNever(processed) == FALSE

\* line 201: if not processed: break
EndsOnNoRows(processed) == processed = <<>>

\* one iteration of the while loop of _fetch_endpoint, and what follows the
\* loop when the iteration leaves it
FetchPage ==
    /\ ppc = "fetch_loop"
    /\ page_num' = page_num + 1
    /\ calls' = Append(calls, Request(per_page, offset))
    /\ LET response == FetchServed(page_num + 1)
           processed == Processed(response)
       IN IF response.raises
          THEN /\ ppc' = "fetch_returned" /\ UNCHANGED <<fetched, offset>>
               /\ fetch_out' = FetchFailed(fetched)
          ELSE IF EndsOnNoRows(processed)
          THEN /\ ppc' = "fetch_returned" /\ UNCHANGED <<fetched, offset>>
               /\ fetch_out' = FetchFinished(fetched)
          ELSE /\ fetched' = fetched \o processed
               /\ IF NoNextLink(response)
                  THEN /\ ppc' = "fetch_returned" /\ UNCHANGED offset
                       /\ fetch_out' = FetchFinished(fetched \o processed)
                  ELSE /\ ppc' = "fetch_loop"
                       /\ offset' = offset + Len(response.data)
                       /\ UNCHANGED fetch_out
    /\ UNCHANGED <<upstream, per_page, flatVars, stepVars, runVars, refVars,
                   getVars>>

InitFetch ==
    /\ upstream \in FetchUpstreams(MaxServed)
    /\ ppc = "fetch_loop" /\ page_num = 0 /\ offset = 0 /\ fetched = <<>>
    /\ per_page = FetchPageSize /\ calls = <<>> /\ fetch_out = <<>>
    /\ RunIdle /\ RefreshIdle /\ GetIdle /\ FlattenIdle /\ StepIdle

InitPaginate == InitPages \/ InitFetch

NextPaginate == GetPage \/ FetchPage

SpecPaginate == InitPaginate /\ [][NextPaginate]_vars

\* ---- what the requests of a pagination say
Gets == {i \in DOMAIN calls : calls[i].op = "get"}

\* the requests made before position i of calls
GetsBefore(i) == {k \in Gets : k < i}

\* the data items the first k responses returned
RECURSIVE ItemsReturned(_)
ItemsReturned(k) ==
    IF k = 0 THEN 0 ELSE ItemsReturned(k - 1) + Len(upstream[k].data)

InFetchEndpoint == ppc \in {"fetch_loop", "fetch_returned"}

(***************************************************************************)
(* C23: while a resource is paginated, every request carries the same      *)
(* per_page, the requested page size capped at 100, and an offset equal to *)
(* the number of data items all earlier pages returned, so the offsets     *)
(* increase strictly from 0; in get_all_pages and in _fetch_endpoint.      *)
(***************************************************************************)
C23_OffsetsAndPageSize ==
    /\ \A i \in Gets :
          /\ calls[i].per_page = IF per_page < 100 THEN per_page ELSE 100
          /\ calls[i].offset = ItemsReturned(Cardinality(GetsBefore(i)))
    /\ \A i, j \in Gets : i < j => calls[i].offset < calls[j].offset
    /\ Gets # {} => \E i \in Gets : calls[i].offset = 0 /\ GetsBefore(i) = {}

\* get_all_pages asked for pages of 150: three requests of 100 at offsets
\* 0, 2 and 4
C23_Witness ==
    /\ ppc = "returned" /\ per_page = 150
    /\ [i \in 1..Len(SelectSeq(calls, LAMBDA c : c.op = "get")) |->
           SelectSeq(calls, LAMBDA c : c.op = "get")[i].offset] = <<0, 2, 4>>
    /\ \A i \in Gets : calls[i].per_page = 100

(***************************************************************************)
(* C24 as stated: whichever loop paginates a resource, get_all_pages or    *)
(* _fetch_endpoint, the fixed delay lies between every two consecutive     *)
(* page requests.                                                          *)
(***************************************************************************)
C24_Original ==
    \A i, j \in Gets :
       i < j => \E k \in DOMAIN calls :
                   i < k /\ k < j /\ calls[k] = Sleep(PageDelay)

\* the k-th request was answered, and its page gave no rows
NoRowsAt(k) == ~FetchServed(k).raises /\ Processed(FetchServed(k)) = <<>>

(***************************************************************************)
(* C25: in _fetch_endpoint a page whose flattening raised, like any page   *)
(* that flattens to no rows, is not a failure: it ends the pagination of   *)
(* the resource even when it carries a links.next, no later page is        *)
(* requested, and the rows of the earlier pages are kept and returned.     *)
(***************************************************************************)
C25_EmptyPageEndsFetch ==
    InFetchEndpoint
       => /\ \A k \in 1..(page_num - 1) : ~NoRowsAt(k)
          /\ page_num >= 1 /\ NoRowsAt(page_num)
                => /\ ppc = "fetch_returned"
                   /\ fetched = DataOfPages(page_num - 1)
                   /\ fetch_out = [table |-> IF fetched = <<>> THEN Absent ELSE fetched,
                                   returned |-> Len(fetched), caught |-> FALSE]

\* the second page has an item and a links.next but its flattening raised:
\* the third page is not requested and the two rows of the first are kept
C25_Witness ==
    /\ ppc = "fetch_returned" /\ Len(upstream) = 3 /\ page_num = 2
    /\ ~upstream[2].flattens /\ Len(upstream[2].data) = 1
    /\ upstream[2].next = "https://next"
    /\ fetch_out = [table |-> <<<<1, 1>>, <<1, 2>>>>, returned |-> 2,
                    caught |-> FALSE]

(***************************************************************************)
(* C26: when a page request fails after the client's retries, the          *)
(* exception is caught inside _fetch_endpoint: the rows flattened from the *)
(* earlier pages are discarded, no table is accumulated, 0 is returned for *)
(* records_fetched, and the call returns instead of raising.               *)
(***************************************************************************)
C26_FetchErrorYieldsNothing ==
    InFetchEndpoint /\ page_num >= 1 /\ FetchServed(page_num).raises
       => /\ ppc = "fetch_returned"
          /\ fetch_out = [table |-> Absent, returned |-> 0, caught |-> TRUE]

\* the first page gave two rows, the request for the second failed: the
\* rows are gone and the call returned 0
C26_Witness ==
    /\ ppc = "fetch_returned" /\ page_num = 2
    /\ Len(upstream) >= 2 /\ upstream[2].raises
    /\ fetched = <<<<1, 1>>, <<1, 2>>>>
    /\ fetch_out.table = Absent /\ fetch_out.returned = 0

\* the destination statements the run issued on table t
StatementsOn(t) == {i \in LogOps({"drop", "write"}) : log[i].arg = t}

(***************************************************************************)
(* C27: a resource that yields zero rows in a run (nothing upstream, a     *)
(* fetch error, or an explode that drops every row) has its destination    *)
(* table neither dropped nor written: the table stays as the run found it, *)
(* also when the run ends completed.                                       *)
(***************************************************************************)
C27_EmptyResourceKeepsOldTable ==
    \A t \in Tables :
       /\ StatementsOn(t) # {} => dataframes[t].present /\ dataframes[t].rows > 0
       /\ StatementsOn(t) = {} => dest[t] = InitialTable

\* a completed run in which explode dropped every check-in row and another
\* resource gave nothing: both destination tables still hold the rows of the
\* previous run
C27_Witness ==
    /\ pc = "returned_true" /\ dbJob.status = "completed"
    /\ dataframes["PC_CHECKINS"].present /\ dataframes["PC_CHECKINS"].rows = 0
    /\ ~dataframes["PC_EVENTS"].present
    /\ dest["PC_CHECKINS"] = PreviousTable /\ dest["PC_EVENTS"] = PreviousTable
    /\ dest["PC_PEOPLE"].fresh

(***************************************************************************)
(* C28: the drop of a destination table and the bulk write of its          *)
(* replacement are separate steps: when the write fails after the drop was *)
(* committed, the table is absent, with neither its previous rows nor the  *)
(* new ones, and the job ends failed.                                      *)
(***************************************************************************)
\* the table whose drop is the last destination statement of the log
DroppedLast(t) ==
    /\ LogOps({"drop", "write"}) # {}
    /\ LET last == CHOOSE i \in LogOps({"drop", "write"}) :
                      \A k \in LogOps({"drop", "write"}) : k <= i
       IN log[last] = [op |-> "drop", arg |-> t]

C28_FailedWriteLeavesNoTable ==
    \A t \in Tables :
       DroppedLast(t)
          => /\ ~dest[t].present /\ dest[t].rows = 0
             /\ raised = DatabaseError /\ raisedIn = "load"
             /\ pc \in {"except", "returned_false", "escaped"}
             /\ pc # "except" => job.status = "failed"
             /\ pc = "returned_false"
                   => dbJob.status = "failed" /\ dbJob.error_message = DatabaseError

\* the destination held the people table of an earlier run; this run
\* dropped it, the write failed, and the job is failed with the table gone
C28_Witness ==
    /\ pc = "returned_false" /\ dbJob.status = "failed"
    /\ prevSync # NoValue /\ DroppedLast("PC_PEOPLE")
    /\ dataframes["PC_PEOPLE"].rows > 0
    /\ dest["PC_PEOPLE"] = AbsentTable

(***************************************************************************)
(* The committed job row against the fetches of the run.                   *)
(***************************************************************************)
RECURSIVE SumSeq(_)
SumSeq(counts) ==
    IF counts = <<>> THEN 0 ELSE Head(counts) + SumSeq(Tail(counts))

FetchEntries == SelectSeq(log, LAMBDA e : e.op = "fetch")

\* rows flattened from the pages of every resource, discarded ones included
RowsFlattened ==
    SumSeq([i \in 1..Len(FetchEntries) |-> FetchEntries[i].flattened])

\* rows the fetches kept: nothing for a resource whose fetch was given up
RowsKept == SumSeq([i \in 1..Len(FetchEntries) |-> FetchEntries[i].kept])

\* the parts of the invariant that do not depend on the count
CommittedJobFields ==
    /\ dbJob.status = "failed"
          => dbJob.error_message # Null /\ dbJob.completed_at # NoValue
    /\ dbJob.status = "completed"
          => /\ dbJob.started_at # NoValue /\ dbJob.completed_at # NoValue
             /\ dbJob.error_message = Null
             /\ FetchesDone = Len(DASHBOARD_ENDPOINTS)
    /\ dbJob.status = "running"
          => dbJob.started_at # NoValue /\ dbJob.total_endpoints # NoValue

(***************************************************************************)
(* C29 as stated: in every committed state, failed implies an error        *)
(* message and completed_at; completed implies started_at, completed_at,   *)
(* no error message and records_fetched equal to the rows flattened for    *)
(* the configured resources in this run; running implies started_at and    *)
(* total_endpoints.                                                        *)
(***************************************************************************)
C29_Original ==
    /\ CommittedJobFields
    /\ dbJob.status = "completed" => dbJob.records_fetched = RowsFlattened

(***************************************************************************)
(* C29 amended: the same, with records_fetched equal to the rows the       *)
(* fetches kept: the rows flattened for a resource whose fetch finished,   *)
(* and none for a resource whose fetch met an error, whatever its earlier  *)
(* pages gave; explode and enrichment do not change the count.             *)
(***************************************************************************)
C29_Amended ==
    /\ CommittedJobFields
    /\ dbJob.status = "completed" => dbJob.records_fetched = RowsKept

\* a completed run where one fetch was given up after a flattened page and
\* explode changed the number of check-in rows: the committed count is that
\* of the rows kept by the fetches
C29_Witness ==
    /\ dbJob.status = "completed" /\ pc = "returned_true"
    /\ RowsFlattened > RowsKept /\ RowsKept > 0
    /\ dbJob.records_fetched = RowsKept
    /\ \E i \in LogOps({"fetch"}) :
          /\ log[i].arg = "check_ins" /\ log[i].kept > 0
          /\ dataframes["PC_CHECKINS"].rows # log[i].kept

(***************************************************************************)
(* run_data_refresh: the run is one background task that goes on as long   *)
(* as its calls return, so a step that can be taken is taken.  What leaves *)
(* run_sync (pc = "escaped") is logged, the session is closed, and nothing *)
(* else writes the job.                                                    *)
(***************************************************************************)
SpecLive == Spec /\ WF_vars(Next)

(***************************************************************************)
(* C30 as stated: every run started for a pending job eventually leaves    *)
(* the job in committed status completed or failed, given that every call  *)
(* returns with a result or an error and that pages are finitely many.     *)
(***************************************************************************)
C30_Original == <>(dbJob.status \in {"completed", "failed"})

====
